---- MODULE Spec2Model ----
(***************************************************************************)
(* A model of the transcript pipeline of video_web_app_v3:                 *)
(*   - create_overlapping_chunks   (utils/text_processing.py)              *)
(*   - _process_chunks_in_parallel, summarize_chunk_async,                 *)
(*     create_comprehensive_summary_async (summarizer.py)                  *)
(*   - process_in_batches          (utils/batch_processor.py)              *)
(*                                                                         *)
(* A Python str is a sequence of characters, each written as a one-        *)
(* character string; a character outside ASCII is written by its code      *)
(* point ("U+1F3AC").  Offsets are 0-based as in Python, so character i    *)
(* of s is s[i + 1].                                                       *)
(***************************************************************************)
EXTENDS Integers, Sequences, FiniteSets, TLC

VARIABLES
    \* ---- create_overlapping_chunks ----
    text_in,        \* the text argument as passed by the caller
    text,           \* the local text (after truncation)
    original_chunk_size, original_overlap,   \* the caller's arguments
    chunk_size, overlap, max_chunks,
    chunks,         \* one record per chunk appended to the returned list
    start, chunk_count,
    printed,        \* the warnings the call has printed so far
    cpc,            \* position in the function: "entry", "loop", "exit", "returned"
    \* ---- _process_chunks_in_parallel / process_in_batches ----
    batch_fn,       \* which coordinator runs: "_process_chunks_in_parallel" or "process_in_batches"
    processor_fn,   \* process_in_batches' processor_fn: "fix_transcript_chunk" or "raising"
    batch_chunks,   \* the coordinator's list `chunks` (texts)
    tasks,          \* the asyncio tasks created so far, in creation order
    calls,          \* per chunk, the outcomes of the remote calls made for it
    finished,       \* task numbers in the order the tasks completed
    chunk_summaries,    \* what _process_chunks_in_parallel returns
    processed_results,  \* what process_in_batches returns
    bpc,            \* the coordinator: "create", "gather", "returned"
    \* ---- create_comprehensive_summary_async ----
    asm_summaries,  \* the argument chunk_summaries
    video_title,    \* the argument video_title
    transcript_text,    \* the argument transcript_text
    debug_output,   \* self.debug_output
    genre_info,     \* the classification returned by detect_video_genre_async
    asm_result,     \* the text the call returns
    asm_path,       \* the return statement taken: "normal", "emergency", "basic"
    apc,            \* position: "entry", "genre", "comprehensive", "returned"
    \* ---- summarize_async ----
    s_transcript_text,  \* the argument transcript_text
    s_video_title,      \* the argument video_title
    psutil_available,   \* whether `import psutil` succeeds
    seq_summaries,      \* the list chunk_summaries of the sequential branch
    seq_calls,          \* remote calls made for the chunk the sequential loop is at
    s_result,           \* the text summarize_async returns
    s_path,             \* the return statement taken
    spc,                \* position in summarize_async
    \* ---- the template store and the template selector ----
    main_yaml,          \* what summary_templates.yaml holds
    hybrid_yaml,        \* what hybrid_templates.yaml holds
    self_templates,     \* the template store (self.templates)
    tl_genre,           \* the argument genre
    tl_content_type,    \* the argument content_type
    tl_transcript_text, \* the argument transcript_text
    tl_video_title,     \* the argument video_title
    recommendations,    \* what get_template_recommendations returned
    detected_template,  \* what detect_template_from_content returned
    selected_template,  \* what get_summary_template returned
    tlpc,               \* "ready", "recommended", "selected"
    \* ---- the incremental generation of the summary variants ----
    difficulty_levels,  \* the configured difficulty levels
    length_options,     \* the configured length options
    priority_variants,  \* the variants the caller wants first
    next_variant,       \* index, in the run order, of the variant generated next
    all_summaries,      \* the matrix: variant key -> summary or failure marker
    progress_events,    \* the events handed to progress_callback
    total_generated,    \* the caller's count of the generated variants
    ipc,                \* "ready", "running", "returned", "reported"
    \* ---- generate_questions of generate_quiz.py ----
    q_transcript,       \* the argument transcript
    q_title,            \* the argument title
    q_summary,          \* the argument summary
    content_density,    \* the argument content_density
    azure_configured,   \* AZURE_AVAILABLE and AZURE_API_KEY and AZURE_ENDPOINT
    num_questions,      \* the calculated number of questions
    usable_chunks,      \* the sentences and chunks the questions are made from
    chunk_i,            \* loop index i of generate_algorithmic_questions
    question_id,        \* id of the next algorithmic question
    questions,          \* the questions made so far, then the quiz returned
    q_path,             \* "none", "ai", "algorithmic", "basic"
    qpc                 \* position in generate_questions

chunkerVars == <<text_in, text, original_chunk_size, original_overlap, chunk_size,
                 overlap, max_chunks, chunks, start, chunk_count, printed, cpc>>

batchVars == <<batch_fn, processor_fn, batch_chunks, tasks, calls, finished,
               chunk_summaries, processed_results, bpc>>

assembleVars == <<asm_summaries, video_title, transcript_text, debug_output, genre_info,
                  asm_result, asm_path, apc>>

summarizeVars == <<s_transcript_text, s_video_title, psutil_available, seq_summaries,
                   seq_calls, s_result, s_path, spc>>

templateVars == <<main_yaml, hybrid_yaml, self_templates, tl_genre, tl_content_type,
                  tl_transcript_text, tl_video_title, recommendations, detected_template,
                  selected_template, tlpc>>

incrementalVars == <<difficulty_levels, length_options, priority_variants, next_variant,
                     all_summaries, progress_events, total_generated, ipc>>

quizVars == <<q_transcript, q_title, q_summary, content_density, azure_configured,
              num_questions, usable_chunks, chunk_i, question_id, questions, q_path, qpc>>

vars == <<chunkerVars, batchVars, assembleVars, summarizeVars, templateVars, incrementalVars,
          quizVars>>

\* what the steps of one function leave alone
notChunker == <<batchVars, assembleVars, summarizeVars, templateVars, incrementalVars, quizVars>>

notBatch == <<chunkerVars, assembleVars, summarizeVars, templateVars, incrementalVars, quizVars>>

notAssemble == <<chunkerVars, batchVars, summarizeVars, templateVars, incrementalVars, quizVars>>

notTemplate == <<chunkerVars, batchVars, assembleVars, summarizeVars, incrementalVars, quizVars>>

notIncremental == <<chunkerVars, batchVars, assembleVars, summarizeVars, templateVars, quizVars>>

notQuiz == <<chunkerVars, batchVars, assembleVars, summarizeVars, templateVars, incrementalVars>>

-----------------------------------------------------------------------------
(* Bounds of the explored inputs.                                          *)

MaxHead == 6          \* longest explicitly enumerated text
MaxChunkSize == 5     \* largest chunk_size argument
MaxMaxChunks == 3     \* largest max_chunks argument
MidPad == 30          \* pad of the medium-sized texts
MaxBatch == 4         \* most chunks in a batch
MaxSummaries == 3     \* most chunk summaries handed to the assembler
MaxDifficulties == 2  \* most configured difficulty levels
MaxLengths == 3       \* most configured length options
BoundarySize == 7     \* chunk_size of the calls on the boundary texts
BoundaryPad == 12     \* pad of the longer boundary texts

-----------------------------------------------------------------------------
(* Integer helpers.                                                        *)

Min(a, b) == IF a <= b THEN a ELSE b

Max(a, b) == IF a >= b THEN a ELSE b

SetMax(S) == CHOOSE x \in S : \A y \in S : y <= x

-----------------------------------------------------------------------------
(* Texts handed to the chunker.  A text is head \o pad copies of the       *)
(* letter "a": the head is enumerated character by character, the pad      *)
(* lets a text be longer than MAX_TEXT_SIZE without storing a million      *)
(* characters in the state.                                                *)

Letter == "a"

Alphabet == {Letter, " ", "."}

Whitespace == {" ", "\n", "\t"}

RECURSIVE SeqsUpTo(_, _)
SeqsUpTo(S, n) ==
    IF n = 0 THEN {<<>>}
    ELSE LET shorter == SeqsUpTo(S, n - 1)
         IN shorter \cup {Append(s, c) : s \in {x \in shorter : Len(x) = n - 1}, c \in S}

TLen(t) == Len(t.head) + t.pad

CharAt(t, i) == IF i < Len(t.head) THEN t.head[i + 1] ELSE Letter

\* t[:m] for m >= 0
Prefix(t, m) ==
    IF m >= TLen(t) THEN t
    ELSE IF m <= Len(t.head) THEN [head |-> SubSeq(t.head, 1, m), pad |-> 0]
    ELSE [head |-> t.head, pad |-> m - Len(t.head)]

\* Python's adjustment of a slice index against a length n
PyIdx(i, n) == IF i < 0 THEN Max(i + n, 0) ELSE Min(i, n)

\* str.rfind(sub, start, end): the highest offset p with start <= p and
\* p + len(sub) <= end (after index adjustment) at which sub occurs, else -1.
\* sub begins with a space or a period, so an occurrence begins in the head.
rfind(t, sub, s, e) ==
    LET n == TLen(t)
        lo == PyIdx(s, n)
        hi == PyIdx(e, n)
        top == Min(hi - Len(sub), Len(t.head) - 1)
        hits == {p \in lo..top : \A k \in 1..Len(sub) : CharAt(t, p + k - 1) = sub[k]}
    IN IF hits = {} THEN -1 ELSE SetMax(hits)

\* bool(t[lo:hi].strip()) for adjusted lo, hi: some character of the slice
\* is not whitespace
StripNonEmpty(t, lo, hi) ==
    \/ \E i \in lo..(Min(hi, Len(t.head)) - 1) : CharAt(t, i) \notin Whitespace
    \/ Max(lo, Len(t.head)) < hi

-----------------------------------------------------------------------------
(* create_overlapping_chunks(text, chunk_size, overlap, max_chunks)        *)

MAX_TEXT_SIZE == 1000000

\* estimated_chunks > max_chunks, with estimated_chunks = len(text) / (chunk_size - overlap)
TooManyChunks(n, cs, ov, mc) == n > mc * (cs - ov)

\* new_chunk_size = int(len(text) / max_chunks) + overlap
NewChunkSize(n, ov, mc) == (n \div mc) + ov

NewOverlapUncapped(ov, ncs) == ncs \div 10

\* new_overlap = min(overlap, int(new_chunk_size * 0.1))
NewOverlap(ov, ncs) == Min(ov, ncs \div 10)

LoopCondNoLimit(st, n, cc, mc) == st < n

\* the while condition of the chunk loop
LoopCond(st, n, cc, mc) == st < n /\ cc < mc

\* a chunk end moved back to any sentence break or space of the chunk
ChunkEndAnyBreak(t, st, cs) ==
    LET end == st + cs
        period_pos == rfind(t, <<".", " ">>, st, end)
        last_space == rfind(t, <<" ">>, st, end)
    IN IF end < TLen(t)
       THEN IF period_pos > st THEN period_pos + 1
            ELSE IF last_space > st THEN last_space
            ELSE end
       ELSE end

\* the end of the chunk that starts at st: the naive end, moved back to a
\* sentence break or a space that lies past the middle of the chunk
ChunkEnd(t, st, cs) ==
    LET end == st + cs
        period_pos == rfind(t, <<".", " ">>, st, end)
        last_space == rfind(t, <<" ">>, st, end)
    IN IF end < TLen(t)
       THEN IF period_pos > st + (cs \div 2) THEN period_pos + 1
            ELSE IF last_space > st + (cs \div 2) THEN last_space
            ELSE end
       ELSE end

\* start = end - overlap
NextStart(end, ov) == end - ov

HitLimitStrict(st, n, cc, mc) == st < n /\ cc > mc

\* the condition of the final warning
HitLimit(st, n, cc, mc) == st < n /\ cc >= mc

\* lines 21-54: the empty-text return, the size ceiling, the adaptive resizing
ChunkerEntry ==
    /\ cpc = "entry"
    /\ IF TLen(text_in) = 0
       THEN /\ cpc' = "returned"
            /\ UNCHANGED <<text, chunk_size, overlap, printed>>
       ELSE LET t == IF TLen(text_in) > MAX_TEXT_SIZE
                     THEN Prefix(text_in, MAX_TEXT_SIZE) ELSE text_in
                p1 == IF TLen(text_in) > MAX_TEXT_SIZE THEN {"truncated"} ELSE {}
                adapt == TooManyChunks(TLen(t), chunk_size, overlap, max_chunks)
                ncs == NewChunkSize(TLen(t), overlap, max_chunks)
            IN /\ text' = t
               /\ chunk_size' = IF adapt THEN ncs ELSE chunk_size
               /\ overlap' = IF adapt THEN NewOverlap(overlap, ncs) ELSE overlap
               /\ printed' = p1 \cup (IF adapt THEN {"adjusted"} ELSE {})
               /\ cpc' = "loop"
    /\ UNCHANGED <<text_in, original_chunk_size, original_overlap, max_chunks,
                   chunks, start, chunk_count>>
    /\ UNCHANGED notChunker

\* lines 56-83: one iteration of the chunk loop
ChunkerIter ==
    /\ cpc = "loop"
    /\ LoopCond(start, TLen(text), chunk_count, max_chunks)
    /\ LET n == TLen(text)
           end == ChunkEnd(text, start, chunk_size)
           lo == PyIdx(start, n)
           hi == PyIdx(end, n)
           nonempty == StripNonEmpty(text, lo, hi)
       IN /\ chunks' = IF nonempty
                       THEN Append(chunks, [start |-> start, end |-> end, lo |-> lo, hi |-> hi])
                       ELSE chunks
          /\ chunk_count' = IF nonempty THEN chunk_count + 1 ELSE chunk_count
          /\ start' = NextStart(end, overlap)
          /\ cpc' = IF NextStart(end, overlap) >= n THEN "exit" ELSE "loop"
    /\ UNCHANGED <<text_in, text, original_chunk_size, original_overlap, chunk_size,
                   overlap, max_chunks, printed>>
    /\ UNCHANGED notChunker

\* lines 56, 85-90: the loop condition fails (or the loop was left by break);
\* the final warning, and the return
ChunkerExit ==
    /\ \/ cpc = "exit"
       \/ cpc = "loop" /\ ~LoopCond(start, TLen(text), chunk_count, max_chunks)
    /\ printed' = IF HitLimit(start, TLen(text), chunk_count, max_chunks)
                  THEN printed \cup {"incomplete"} ELSE printed
    /\ cpc' = "returned"
    /\ UNCHANGED <<text_in, text, original_chunk_size, original_overlap, chunk_size,
                   overlap, max_chunks, chunks, start, chunk_count>>
    /\ UNCHANGED notChunker

-----------------------------------------------------------------------------
(* Strings built by the program (sequences of characters).                 *)

\* sub in s
Contains(s, sub) ==
    \E i \in 1..(Len(s) - Len(sub) + 1) : \A k \in 1..Len(sub) : s[i + k - 1] = sub[k]

\* s.startswith(p)
StartsWith(s, p) == Len(s) >= Len(p) /\ SubSeq(s, 1, Len(p)) = p

Digits == <<"0", "1", "2", "3", "4", "5", "6", "7", "8", "9">>

\* str(n) for n >= 0
RECURSIVE IntToStr(_)
IntToStr(n) ==
    IF n < 10 THEN <<Digits[n + 1]>>
    ELSE IntToStr(n \div 10) \o <<Digits[(n % 10) + 1]>>

RECURSIVE LStrip(_)
LStrip(s) == IF s # <<>> /\ Head(s) \in Whitespace THEN LStrip(Tail(s)) ELSE s

RECURSIVE RStrip(_)
RStrip(s) ==
    IF s # <<>> /\ s[Len(s)] \in Whitespace THEN RStrip(SubSeq(s, 1, Len(s) - 1)) ELSE s

\* s.strip()
Strip(s) == LStrip(RStrip(s))

\* the characters of a text
Chars(t) == t.head \o [i \in 1..t.pad |-> Letter]

\* len(t.split()): the number of maximal runs of non-whitespace characters
WordCount(t) ==
    Cardinality({i \in 1..Len(t.head) :
                    t.head[i] \notin Whitespace /\ (i = 1 \/ t.head[i - 1] \in Whitespace)})
    + (IF t.pad > 0 /\ (t.head = <<>> \/ t.head[Len(t.head)] \in Whitespace) THEN 1 ELSE 0)

\* t[lo:hi] for 0 <= lo
Slice(t, lo, hi) ==
    LET h == Len(t.head)
        e == Min(hi, TLen(t))
    IN [head |-> SubSeq(t.head, lo + 1, Min(e, h)), pad |-> Max(0, e - Max(lo, h))]

\* "sep".join(parts)
RECURSIVE Join(_, _)
Join(parts, sep) ==
    IF parts = <<>> THEN <<>>
    ELSE IF Len(parts) = 1 THEN parts[1]
    ELSE parts[1] \o sep \o Join(Tail(parts), sep)

LowerCase == <<"a","b","c","d","e","f","g","h","i","j","k","l","m","n","o","p","q","r","s","t","u","v","w",
  "x","y","z">>

UpperCase == <<"A","B","C","D","E","F","G","H","I","J","K","L","M","N","O","P","Q","R","S","T","U","V","W",
  "X","Y","Z">>

\* s.upper()
Upper(s) ==
    [k \in 1..Len(s) |->
        IF \E j \in 1..Len(LowerCase) : LowerCase[j] = s[k]
        THEN UpperCase[CHOOSE j \in 1..Len(LowerCase) : LowerCase[j] = s[k]]
        ELSE s[k]]

-----------------------------------------------------------------------------
(* The chunk processor: summarize_chunk_async, process_single_chunk,       *)
(* _create_fallback_chunk_summary.                                         *)

\* What the remote text service does with one call: it returns a text, or
\* the call raises.  The service stands outside the repository; its reply to
\* the chunk summary prompt names the chunk number it was given.
RemoteReply(chunk_num) ==
    [raised |-> FALSE,
     content |-> <<"S","u","m","m","a","r","y"," ","o","f"," ","p","a","r","t"," ">> \o IntToStr(chunk_num)]

\* a reply that opens with a bracket, as a summary may that quotes the
\* transcript's "[Music]"
BracketReply(chunk_num) ==
    [raised |-> FALSE,
     content |-> <<"[","M","u","s","i","c","]"," ","p","a","r","t"," ">> \o IntToStr(chunk_num)]

RemoteError == [raised |-> TRUE, content |-> <<>>]

RemoteOutcomes(chunk_num) == {RemoteReply(chunk_num), BracketReply(chunk_num), RemoteError}

\* f"[Chunk {chunk_idx + 1} summary unavailable due to error]"
ChunkErrorMarker(chunk_idx) ==
    <<"[","C","h","u","n","k"," ">> \o IntToStr(chunk_idx + 1)
    \o <<" ","s","u","m","m","a","r","y"," ","u","n","a","v","a","i","l","a","b","l","e"," ","d","u",
  "e"," ","t","o"," ","e","r","r","o","r","]">>

\* summarize_chunk_async(chunk_text, video_title, chunk_idx, total_chunks),
\* given the outcome of its call of the chunk agent: the reply's content, or,
\* from the except clause, the error marker.  It raises nothing.
summarize_chunk_async(outcome, chunk_idx) ==
    IF outcome.raised
    THEN [raised |-> FALSE, value |-> ChunkErrorMarker(chunk_idx)]
    ELSE [raised |-> FALSE, value |-> outcome.content]

\* _create_fallback_chunk_summary(chunk_text, chunk_num)
FALLBACK_PREVIEW == 150

create_fallback_chunk_summary(chunk_text, chunk_num) ==
    LET preview_length == Min(FALLBACK_PREVIEW, TLen(chunk_text))
        stripped == Strip(Chars(Slice(chunk_text, 0, preview_length)))
        preview == IF TLen(chunk_text) > preview_length
                   THEN stripped \o <<".", ".", ".">> ELSE stripped
        word_count == WordCount(chunk_text)
    IN <<"*","*","C","h","u","n","k"," ">> \o IntToStr(chunk_num)
       \o <<" ","-"," ","F","a","l","l","b","a","c","k"," ","S","u","m","m","a","r","y","*","*","\n","\n">>
       \o <<"T","h","i","s"," ","s","e","c","t","i","o","n"," ","c","o","n","t","a","i","n","s"," ","a",
  "p","p","r","o","x","i","m","a","t","e","l","y"," ">>
       \o IntToStr(word_count)
       \o <<" ","w","o","r","d","s",".","\n","\n">>
       \o <<"P","r","e","v","i","e","w",":"," ">> \o preview \o <<"\n", "\n">>
       \o <<"[","F","u","l","l"," ","A","I"," ","s","u","m","m","a","r","y"," ","u","n","a","v","a","i",
  "l","a","b","l","e"," ","-"," ","u","s","i","n","g"," ","b","a","s","i","c"," ","e","x","t",
  "r","a","c","t","i","v","e"," ","s","u","m","m","a","r","y"," ","i","n","s","t","e","a","d",
  "]">>

max_retries == 2

\* process_single_chunk as it would be if the failure of the remote call
\* reached its retry loop
ProcessSingleChunkRetrying(task, chunk, outcome) ==
    IF ~outcome.raised
    THEN [task EXCEPT !.state = "done", !.result = outcome.content]
    ELSE IF task.retry_count + 1 <= max_retries
    THEN [task EXCEPT !.retry_count = @ + 1]
    ELSE [task EXCEPT !.retry_count = @ + 1, !.state = "done",
                      !.result = create_fallback_chunk_summary(chunk, task.chunk_idx + 1)]

\* One pass of process_single_chunk's retry loop, given the outcome of the
\* remote call of this attempt: the task as it is when the attempt is over.
process_single_chunk(task, chunk, outcome) ==
    LET r == summarize_chunk_async(outcome, task.chunk_idx)
    IN IF ~r.raised
       THEN [task EXCEPT !.state = "done", !.result = r.value]
       ELSE IF task.retry_count + 1 <= max_retries
       THEN [task EXCEPT !.retry_count = @ + 1]
       ELSE [task EXCEPT !.retry_count = @ + 1, !.state = "done",
                         !.result = create_fallback_chunk_summary(chunk, task.chunk_idx + 1)]

-----------------------------------------------------------------------------
(* split_text_into_chunks and the processor of the transcript correction.  *)

CORRECTION_CHUNK_SIZE == 2500

CORRECTION_OVERLAP == 250

SPLIT_WINDOW == 100

\* split_text_into_chunks(text, chunk_size, overlap), from offset st on
RECURSIVE split_text_into_chunks(_, _, _, _)
split_text_into_chunks(t, cs, ov, st) ==
    IF ~(st < TLen(t)) THEN <<>>
    ELSE LET naive == st + cs
             last_space == rfind(t, <<" ">>, st, naive)
             end == IF naive < TLen(t) /\ last_space > st + cs - SPLIT_WINDOW
                    THEN last_space ELSE naive
             chunk == Slice(t, st, end)
         IN IF end - ov >= TLen(t) THEN <<chunk>>
            ELSE <<chunk>> \o split_text_into_chunks(t, cs, ov, end - ov)

\* What the remote service returns to fix_transcript_chunk: a TranscriptChunk
\* whose fixed_transcript is the chunk behind a tag naming the chunk number.
FixedReply(chunk, chunk_idx) ==
    [orig_transcript |-> chunk,
     fixed_transcript |-> [head |-> <<"f","i","x">> \o IntToStr(chunk_idx) \o <<" ">> \o chunk.head,
                           pad |-> chunk.pad]]

\* fix_transcript_chunk(chunk, chunk_idx, total_chunks, llm, video_title),
\* given the outcome of its remote call
fix_transcript_chunk(chunk, chunk_idx, raised) ==
    IF raised
    THEN [orig_transcript |-> chunk, fixed_transcript |-> chunk]
    ELSE FixedReply(chunk, chunk_idx)

-----------------------------------------------------------------------------
(* The coordinators: _process_chunks_in_parallel and process_in_batches.   *)

NoResult == <<>>

\* asyncio.gather(*tasks): the tasks' results in the order of the tasks
GatherAsCompleted(ts, order) == [k \in 1..Len(ts) |-> ts[order[k]].result]

Gather(ts, order) == [k \in 1..Len(ts) |-> ts[k].result]

\* a gather that ends as soon as one task has failed
FirstFailureEnds(ts) ==
    \/ \A k \in 1..Len(ts) : ts[k].state = "done"
    \/ \E k \in 1..Len(ts) : ts[k].state = "done" /\ calls[k][Len(calls[k])] = "error"

AllDone(ts) == \A k \in 1..Len(ts) : ts[k].state = "done"

NewTask(i) == [chunk_idx |-> i, state |-> "running", retry_count |-> 0,
               result |-> NoResult, exception |-> FALSE]

\* summarizer.py lines 191-198: one pass of the loop that creates the tasks
\* (the sleep before it lets the tasks created so far run)
CreateTask ==
    /\ bpc = "create"
    /\ batch_fn = "_process_chunks_in_parallel"
    /\ Len(tasks) < Len(batch_chunks)
    /\ tasks' = Append(tasks, NewTask(Len(tasks)))
    /\ bpc' = IF Len(tasks) + 1 = Len(batch_chunks) THEN "gather" ELSE "create"
    /\ UNCHANGED <<batch_fn, processor_fn, batch_chunks, calls, finished,
                   chunk_summaries, processed_results>>
    /\ UNCHANGED notBatch

\* summarizer.py lines 164-185: a chunk task's remote call ends (it returns
\* or raises) and process_single_chunk runs on to its next await or its return
ChunkTaskStep(k) ==
    /\ batch_fn = "_process_chunks_in_parallel"
    /\ k \in 1..Len(tasks)
    /\ tasks[k].state = "running"
    /\ \E outcome \in RemoteOutcomes(k) :
          LET t == process_single_chunk(tasks[k], batch_chunks[k], outcome)
          IN /\ tasks' = [tasks EXCEPT ![k] = t]
             /\ calls' = [calls EXCEPT ![k] = Append(@, IF outcome.raised THEN "error" ELSE "ok")]
             /\ finished' = IF t.state = "done" THEN Append(finished, k) ELSE finished
    /\ UNCHANGED <<batch_fn, processor_fn, batch_chunks, chunk_summaries,
                   processed_results, bpc>>
    /\ UNCHANGED notBatch

\* summarizer.py lines 200-215: gather, and the return
GatherSummaries ==
    /\ bpc = "gather"
    /\ batch_fn = "_process_chunks_in_parallel"
    /\ AllDone(tasks)
    /\ chunk_summaries' = Gather(tasks, finished)
    /\ bpc' = "returned"
    /\ UNCHANGED <<batch_fn, processor_fn, batch_chunks, tasks, calls, finished,
                   processed_results>>
    /\ UNCHANGED notBatch

\* batch_processor.py lines 104-117: the tasks are created in one go, one
\* per chunk
CreateAllTasks ==
    /\ bpc = "create"
    /\ batch_fn = "process_in_batches"
    /\ tasks' = [k \in 1..Len(batch_chunks) |-> NewTask(k)]
    /\ bpc' = "gather"
    /\ UNCHANGED <<batch_fn, processor_fn, batch_chunks, calls, finished,
                   chunk_summaries, processed_results>>
    /\ UNCHANGED notBatch

\* batch_processor.py line 113: the task of chunk k runs processor_fn to its
\* end; a processor other than fix_transcript_chunk lets the error through
ProcessorTaskStep(k) ==
    /\ batch_fn = "process_in_batches"
    /\ k \in 1..Len(tasks)
    /\ tasks[k].state = "running"
    /\ \E raised \in BOOLEAN :
          /\ tasks' = [tasks EXCEPT ![k] =
                IF processor_fn = "fix_transcript_chunk"
                THEN [@ EXCEPT !.state = "done",
                               !.result = fix_transcript_chunk(batch_chunks[k], k, raised)]
                ELSE IF raised
                THEN [@ EXCEPT !.state = "done", !.exception = TRUE]
                ELSE [@ EXCEPT !.state = "done", !.result = FixedReply(batch_chunks[k], k)]]
          /\ calls' = [calls EXCEPT ![k] = Append(@, IF raised THEN "error" ELSE "ok")]
    /\ finished' = Append(finished, k)
    /\ UNCHANGED <<batch_fn, processor_fn, batch_chunks, chunk_summaries,
                   processed_results, bpc>>
    /\ UNCHANGED notBatch

\* batch_processor.py lines 122-135: a task's exception becomes a failure
\* record that holds the chunk; any other result is passed on
ProcessResult(ts, results, i) ==
    IF ts[i].exception
    THEN [result |-> batch_chunks[i], chunk_idx |-> i, success |-> FALSE]
    ELSE results[i]

\* batch_processor.py lines 119-137
GatherBatches ==
    /\ bpc = "gather"
    /\ batch_fn = "process_in_batches"
    /\ AllDone(tasks)
    /\ LET results == Gather(tasks, finished)
       IN processed_results' = [i \in 1..Len(results) |-> ProcessResult(tasks, results, i)]
    /\ bpc' = "returned"
    /\ UNCHANGED <<batch_fn, processor_fn, batch_chunks, tasks, calls, finished,
                   chunk_summaries>>
    /\ UNCHANGED notBatch

\* the chunks handed to the chunk processor: stripped, non-empty texts, one
\* shorter and one longer than the fallback preview
ShortChunk == [head |-> <<"a", ".", " ", "a">>, pad |-> 0]

LongChunk == [head |-> <<"a", " ">>, pad |-> 200]

\* the texts handed to process_in_batches
\* a text with its only space inside the window where split_text_into_chunks
\* looks for a word boundary
SpacedHead ==
    [i \in 1..(CORRECTION_CHUNK_SIZE - SPLIT_WINDOW \div 2) |->
        IF i = CORRECTION_CHUNK_SIZE - SPLIT_WINDOW \div 2 THEN " " ELSE Letter]

BatchTexts ==
    {[head |-> h, pad |-> (CORRECTION_CHUNK_SIZE - CORRECTION_OVERLAP) * k + 1] :
        h \in {<<>>, <<"a", " ">>}, k \in 0..(MaxBatch - 1)}
    \cup {[head |-> <<>>, pad |-> 0],
          [head |-> SpacedHead, pad |-> CORRECTION_CHUNK_SIZE]}

MinParallel == 3

IdleChunker ==
    /\ text_in = [head |-> <<>>, pad |-> 0]
    /\ text = text_in
    /\ chunk_size = 1
    /\ overlap = 0
    /\ max_chunks = 1
    /\ original_chunk_size = 1
    /\ original_overlap = 0
    /\ chunks = <<>>
    /\ start = 0
    /\ chunk_count = 0
    /\ printed = {}
    /\ cpc = "idle"

IdleQuiz ==
    /\ q_transcript = <<>>
    /\ q_title = <<>>
    /\ q_summary = <<>>
    /\ content_density = "medium"
    /\ azure_configured = FALSE
    /\ num_questions = 0
    /\ usable_chunks = <<>>
    /\ chunk_i = 0
    /\ question_id = 1
    /\ questions = <<>>
    /\ q_path = "none"
    /\ qpc = "idle"

IdleIncremental ==
    /\ difficulty_levels = <<>>
    /\ length_options = <<>>
    /\ priority_variants = <<>>
    /\ next_variant = 0
    /\ all_summaries = <<>>
    /\ progress_events = <<>>
    /\ total_generated = 0
    /\ ipc = "idle"

IdleTemplate ==
    /\ main_yaml = <<>>
    /\ hybrid_yaml = <<>>
    /\ self_templates = <<>>
    /\ tl_genre = <<>>
    /\ tl_content_type = <<>>
    /\ tl_transcript_text = <<>>
    /\ tl_video_title = <<>>
    /\ recommendations = <<>>
    /\ detected_template = <<>>
    /\ selected_template = <<>>
    /\ tlpc = "idle"

IdleSummarize ==
    /\ s_transcript_text = [head |-> <<>>, pad |-> 0]
    /\ s_video_title = <<>>
    /\ psutil_available = FALSE
    /\ seq_summaries = <<>>
    /\ seq_calls = <<>>
    /\ s_result = <<>>
    /\ s_path = "none"
    /\ spc = "idle"

IdleAssemble ==
    /\ asm_summaries = <<>>
    /\ video_title = <<>>
    /\ transcript_text = [head |-> <<>>, pad |-> 0]
    /\ debug_output = FALSE
    /\ genre_info = [genre |-> <<>>, content_type |-> <<>>]
    /\ asm_result = <<>>
    /\ asm_path = "none"
    /\ apc = "idle"

IdleBatch ==
    /\ batch_fn = "none"
    /\ processor_fn = "none"
    /\ batch_chunks = <<>>
    /\ tasks = <<>>
    /\ calls = <<>>
    /\ finished = <<>>
    /\ chunk_summaries = <<>>
    /\ processed_results = <<>>
    /\ bpc = "idle"

InitBatch ==
    /\ \/ /\ batch_fn = "_process_chunks_in_parallel"
          /\ processor_fn = "process_single_chunk"
          /\ \E n \in MinParallel..MaxBatch : batch_chunks \in [1..n -> {ShortChunk, LongChunk}]
       \/ /\ batch_fn = "process_in_batches"
          /\ processor_fn \in {"fix_transcript_chunk", "raising"}
          /\ \E t \in BatchTexts :
                batch_chunks = split_text_into_chunks(t, CORRECTION_CHUNK_SIZE,
                                                      CORRECTION_OVERLAP, 0)
    /\ tasks = <<>>
    /\ calls = [k \in 1..Len(batch_chunks) |-> <<>>]
    /\ finished = <<>>
    /\ chunk_summaries = <<>>
    /\ processed_results = <<>>
    /\ bpc = "create"
    /\ IdleChunker
    /\ IdleAssemble
    /\ IdleSummarize
    /\ IdleTemplate
    /\ IdleIncremental
    /\ IdleQuiz

NextBatch ==
    \/ CreateTask
    \/ \E k \in 1..MaxBatch : ChunkTaskStep(k)
    \/ GatherSummaries
    \/ CreateAllTasks
    \/ \E k \in 1..MaxBatch : ProcessorTaskStep(k)
    \/ GatherBatches

SpecBatch == InitBatch /\ [][NextBatch]_vars


-----------------------------------------------------------------------------
(* The template store and the template selector: load_summary_templates,   *)
(* detect_template_from_content, get_template_recommendations,             *)
(* get_summary_template.  A store is the dictionary as a sequence of       *)
(* templates in insertion order; a template carries its key as `name`.     *)

\* Python's None, as an argument that is a string otherwise
None == <<"None">>

\* the truth value of an optional string
Truthy(x) == x # None /\ x # <<>>

\* the lower-case letter of each upper-case letter
ToLower ==
    [c \in {UpperCase[j] : j \in 1..Len(UpperCase)} |->
        LowerCase[CHOOSE j \in 1..Len(UpperCase) : UpperCase[j] = c]]

\* s.lower()
Lower(s) == [k \in 1..Len(s) |-> IF s[k] \in DOMAIN ToLower THEN ToLower[s[k]] ELSE s[k]]

\* the characters the regular expression class \w matches
WordChars ==
    {LowerCase[j] : j \in 1..Len(LowerCase)} \cup {UpperCase[j] : j \in 1..Len(UpperCase)}
    \cup {Digits[j] : j \in 1..Len(Digits)} \cup {"_"}

\* \b between s[i] and s[i + 1], for i in 0..Len(s)
Boundary(s, i) ==
    (i >= 1 /\ s[i] \in WordChars) # (i < Len(s) /\ s[i + 1] \in WordChars)

\* re.search(r'\b' + re.escape(keyword) + r'\b', s)
SearchWord(keyword, s) ==
    \E q \in 1..(Len(s) - Len(keyword) + 1) :
        /\ \A k \in 1..Len(keyword) : s[q + k - 1] = keyword[k]
        /\ Boundary(s, q - 1)
        /\ Boundary(s, q + Len(keyword) - 1)

\* s.split(sep) for a separator of one character
RECURSIVE Split(_, _)
Split(s, sep) ==
    IF \A k \in 1..Len(s) : s[k] # sep THEN <<s>>
    ELSE LET k == CHOOSE k \in 1..Len(s) : s[k] = sep /\ \A j \in 1..(k - 1) : s[j] # sep
         IN <<SubSeq(s, 1, k - 1)>> \o Split(SubSeq(s, k + 1, Len(s)), sep)

RECURSIVE SumSeq(_)
SumSeq(ns) == IF ns = <<>> THEN 0 ELSE Head(ns) + SumSeq(Tail(ns))

\* load_summary_templates: the built-in default template
DefaultTemplate ==
    [name |-> <<"d","e","f","a","u","l","t">>,
     emoji |-> <<"U+1F4FA">>,
     tone |-> <<"i","n","f","o","r","m","a","t","i","v","e">>,
     has_keywords |-> TRUE,
     keywords |-> <<<<"v","i","d","e","o">>, <<"c","o","n","t","e","n","t">>,
                    <<"i","n","f","o","r","m","a","t","i","o","n">>>>]

\* key in templates
HasKey(templates, key) == \E i \in 1..Len(templates) : templates[i].name = key

\* templates[key]
Lookup(templates, key) ==
    templates[CHOOSE i \in 1..Len(templates) : templates[i].name = key]

\* templates.update(entries): a known key keeps its place and takes the new
\* value, a new key goes to the end
RECURSIVE DictUpdate(_, _)
DictUpdate(templates, entries) ==
    IF entries = <<>> THEN templates
    ELSE LET e == Head(entries)
             merged == IF HasKey(templates, e.name)
                       THEN [i \in 1..Len(templates) |->
                                IF templates[i].name = e.name THEN e ELSE templates[i]]
                       ELSE Append(templates, e)
         IN DictUpdate(merged, Tail(entries))

\* a YAML file that cannot be read or parsed
Missing == <<[name |-> None]>>

\* load_summary_templates(), given what the two YAML files hold
load_summary_templates(main_templates, hybrid_templates) ==
    LET t0 == <<DefaultTemplate>>
        t1 == IF main_templates = Missing THEN t0 ELSE DictUpdate(t0, main_templates)
    IN IF hybrid_templates = Missing THEN t1 ELSE DictUpdate(t1, hybrid_templates)

\* the result None of detect_template_from_content and get_summary_template
NoTemplate == [name |-> None]

DETECT_SAMPLE == 2000

RECOMMEND_SAMPLE == 3000

\* the text both scorers analyse: the lowered title twice, then the lowered
\* head of the transcript
AnalysisText(transcript, title, sample) ==
    (IF Truthy(title) THEN Lower(title) \o <<" ">> \o Lower(title) \o <<" ">> ELSE <<>>)
    \o (IF Truthy(transcript)
        THEN Lower(SubSeq(transcript, 1, Min(Len(transcript), sample))) ELSE <<>>)

\* the points one keyword earns: multi is the weight of a multi-word keyword
\* found in the text, multi_title its bonus when the title has it too, and
\* likewise for a single word matched as a whole word
KeywordScore(keyword, analysis_text, title, multi, multi_title, single, single_title) ==
    IF Contains(keyword, <<" ">>) /\ Contains(analysis_text, keyword)
    THEN multi + (IF Truthy(title) /\ Contains(Lower(title), keyword) THEN multi_title ELSE 0)
    ELSE IF ~Contains(keyword, <<" ">>) /\ SearchWord(keyword, analysis_text)
    THEN single + (IF Truthy(title) /\ SearchWord(keyword, Lower(title)) THEN single_title ELSE 0)
    ELSE 0

\* template_loader.py lines 194-235: the score detect_template_from_content
\* gives a template
DetectScore(template, analysis_text, title, detected_genre) ==
    LET kws == template.keywords
        keywords_count == Cardinality({k \in 1..Len(kws) : Contains(analysis_text, kws[k])})
        parts == Split(template.name, "_")
    IN SumSeq([k \in 1..Len(kws) |-> KeywordScore(kws[k], analysis_text, title, 3, 4, 1, 2)])
       + (IF Truthy(detected_genre) /\ Contains(Lower(template.name), Lower(detected_genre))
          THEN 5 ELSE 0)
       + (IF Contains(template.name, <<"_">>)
          THEN SumSeq([k \in 1..Len(parts) |->
                  (IF Truthy(detected_genre) /\ Contains(Lower(detected_genre), Lower(parts[k]))
                   THEN 3 ELSE 0)
                  + (IF keywords_count >= 3 THEN 2 ELSE 0)])
          ELSE 0)

\* template_loader.py lines 291-312: the score get_template_recommendations
\* gives a template
RecommendScore(template, analysis_text, title) ==
    SumSeq([k \in 1..Len(template.keywords) |->
              KeywordScore(template.keywords[k], analysis_text, title, 3, 3, 1, 2)])

\* the templates that are scored: those with a 'keywords' entry
Scored(templates) == SelectSeq(templates, LAMBDA t : t.has_keywords)

\* sorted(items, key=score, reverse=True): by falling score, items of equal
\* score in their first order
SortByScore(items, score) ==
    LET rank(i) == Cardinality({j \in 1..Len(items) :
                        score[j] > score[i] \/ (score[j] = score[i] /\ j < i)}) + 1
    IN [r \in 1..Len(items) |-> items[CHOOSE i \in 1..Len(items) : rank(i) = r]]

MeetsThresholdLow(score) == score >= 2

\* line 253: the threshold of the detection
MeetsThreshold(score) == score >= 3

\* detect_template_from_content(templates, transcript_text, video_title, detected_genre)
detect_template_from_content(templates, transcript, title, detected_genre) ==
    IF templates = <<>> \/ (~Truthy(transcript) /\ ~Truthy(title)) THEN NoTemplate
    ELSE LET analysis_text == AnalysisText(transcript, title, DETECT_SAMPLE)
             cands == Scored(templates)
             score == [i \in 1..Len(cands) |->
                          DetectScore(cands[i], analysis_text, title, detected_genre)]
             pairs == [i \in 1..Len(cands) |-> [template |-> cands[i], score |-> score[i]]]
             top_templates == SortByScore(pairs, score)
         IN IF top_templates # <<>> /\ MeetsThreshold(top_templates[1].score)
            THEN top_templates[1].template
            ELSE NoTemplate

\* get_template_recommendations(transcript_text, video_title, templates, top_n)
get_template_recommendations(transcript, title, templates, top_n) ==
    LET analysis_text == AnalysisText(transcript, title, RECOMMEND_SAMPLE)
        cands == Scored(templates)
        score == [i \in 1..Len(cands) |-> RecommendScore(cands[i], analysis_text, title)]
        pairs == [i \in 1..Len(cands) |-> <<cands[i].name, score[i]>>]
        sorted_templates == SortByScore(pairs, score)
    IN SubSeq(sorted_templates, 1, Min(top_n, Len(sorted_templates)))

\* get_summary_template: the map of genre keywords to template keys, in order
genre_mapping ==
    <<
       [key |-> <<"e","d","u","c","a","t","i","o","n","a","l">>,
        keywords |-> <<<<"e","d","u","c","a","t","i","o","n","a","l">>, <<"t","u","t","o","r","i","a","l">>, <<"c","o","u","r","s","e">>, <<"l","e","a","r","n">>>>],
       [key |-> <<"t","u","t","o","r","i","a","l">>,
        keywords |-> <<<<"t","u","t","o","r","i","a","l">>, <<"h","o","w","-","t","o">>, <<"h","o","w"," ","t","o">>>>],
       [key |-> <<"p","o","d","c","a","s","t">>,
        keywords |-> <<<<"p","o","d","c","a","s","t">>>>],
       [key |-> <<"i","n","t","e","r","v","i","e","w">>,
        keywords |-> <<<<"i","n","t","e","r","v","i","e","w">>, <<"c","o","n","v","e","r","s","a","t","i","o","n">>>>],
       [key |-> <<"e","n","t","e","r","t","a","i","n","m","e","n","t">>,
        keywords |-> <<<<"e","n","t","e","r","t","a","i","n","m","e","n","t">>>>],
       [key |-> <<"v","l","o","g">>,
        keywords |-> <<<<"v","l","o","g">>, <<"d","a","i","l","y">>, <<"p","e","r","s","o","n","a","l">>>>],
       [key |-> <<"n","e","w","s">>,
        keywords |-> <<<<"n","e","w","s">>, <<"c","o","m","m","e","n","t","a","r","y">>>>],
       [key |-> <<"d","o","c","u","m","e","n","t","a","r","y">>,
        keywords |-> <<<<"d","o","c","u","m","e","n","t","a","r","y">>>>],
       [key |-> <<"r","e","v","i","e","w">>,
        keywords |-> <<<<"r","e","v","i","e","w">>, <<"a","n","a","l","y","s","i","s">>>>],
       [key |-> <<"g","a","m","i","n","g">>,
        keywords |-> <<<<"g","a","m","i","n","g">>, <<"g","a","m","e","p","l","a","y">>, <<"g","a","m","e">>>>],
       [key |-> <<"s","p","o","r","t","s">>,
        keywords |-> <<<<"s","p","o","r","t","s">>, <<"h","i","g","h","l","i","g","h","t">>, <<"a","t","h","l","e","t","i","c">>>>],
       [key |-> <<"m","o","v","i","e","_","r","e","c","a","p">>,
        keywords |-> <<<<"m","o","v","i","e">>, <<"r","e","c","a","p">>, <<"f","i","l","m">>, <<"s","h","o","w">>>>],
       [key |-> <<"m","u","s","i","c">>,
        keywords |-> <<<<"m","u","s","i","c">>, <<"p","e","r","f","o","r","m","a","n","c","e">>, <<"c","o","n","c","e","r","t">>>>],
       [key |-> <<"c","o","o","k","i","n","g">>,
        keywords |-> <<<<"c","o","o","k","i","n","g">>, <<"r","e","c","i","p","e">>, <<"f","o","o","d">>>>],
       [key |-> <<"m","o","t","i","v","a","t","i","o","n","a","l">>,
        keywords |-> <<<<"m","o","t","i","v","a","t","i","o","n","a","l">>, <<"s","e","l","f","-","h","e","l","p">>, <<"i","n","s","p","i","r","a","t","i","o","n">>>>],
       [key |-> <<"t","e","c","h","n","i","c","a","l">>,
        keywords |-> <<<<"t","e","c","h","n","i","c","a","l">>, <<"d","e","v","e","l","o","p","e","r">>, <<"p","r","o","g","r","a","m","m","i","n","g">>, <<"c","o","d","i","n","g">>>>],
       [key |-> <<"b","u","s","i","n","e","s","s">>,
        keywords |-> <<<<"b","u","s","i","n","e","s","s">>, <<"f","i","n","a","n","c","e">>, <<"i","n","v","e","s","t","m","e","n","t">>>>],
       [key |-> <<"h","e","a","l","t","h">>,
        keywords |-> <<<<"h","e","a","l","t","h">>, <<"f","i","t","n","e","s","s">>, <<"w","o","r","k","o","u","t">>>>],
       [key |-> <<"t","r","a","v","e","l">>,
        keywords |-> <<<<"t","r","a","v","e","l">>, <<"d","e","s","t","i","n","a","t","i","o","n">>, <<"t","o","u","r","i","s","m">>>>],
       [key |-> <<"s","c","i","e","n","c","e">>,
        keywords |-> <<<<"s","c","i","e","n","c","e">>, <<"e","x","p","l","a","i","n","e","r">>>>],
       [key |-> <<"c","o","m","e","d","y">>,
        keywords |-> <<<<"c","o","m","e","d","y">>, <<"h","u","m","o","r">>, <<"f","u","n","n","y">>>>],
       [key |-> <<"r","e","a","c","t","i","o","n">>,
        keywords |-> <<<<"r","e","a","c","t","i","o","n">>, <<"r","e","a","c","t","i","n","g">>, <<"r","e","a","c","t">>>>],
       [key |-> <<"u","n","b","o","x","i","n","g">>,
        keywords |-> <<<<"u","n","b","o","x","i","n","g">>, <<"p","a","c","k","a","g","e">>, <<"u","n","b","o","x">>>>],
       [key |-> <<"d","e","b","a","t","e">>,
        keywords |-> <<<<"d","e","b","a","t","e">>, <<"v","e","r","s","u","s">>, <<"v","s">>>>],
       [key |-> <<"h","i","s","t","o","r","y">>,
        keywords |-> <<<<"h","i","s","t","o","r","y">>, <<"h","i","s","t","o","r","i","c","a","l">>, <<"a","n","c","i","e","n","t">>>>],
       [key |-> <<"d","i","y">>,
        keywords |-> <<<<"d","i","y">>, <<"d","o"," ","i","t"," ","y","o","u","r","s","e","l","f">>, <<"c","r","a","f","t">>>>],
       [key |-> <<"t","e","c","h","n","o","l","o","g","y">>,
        keywords |-> <<<<"t","e","c","h","n","o","l","o","g","y">>, <<"t","e","c","h">>, <<"g","a","d","g","e","t">>>>],
       [key |-> <<"b","e","a","u","t","y">>,
        keywords |-> <<<<"b","e","a","u","t","y">>, <<"m","a","k","e","u","p">>, <<"c","o","s","m","e","t","i","c">>>>]
    >>

\* get_summary_template: the map of content types to template keys, in order
content_type_mapping ==
    <<
       [ct_type |-> <<"i","n","s","t","r","u","c","t","i","o","n","a","l">>,
        template_keys |-> <<<<"t","u","t","o","r","i","a","l">>, <<"e","d","u","c","a","t","i","o","n","a","l">>, <<"d","i","y">>, <<"c","o","o","k","i","n","g">>>>],
       [ct_type |-> <<"i","n","f","o","r","m","a","t","i","o","n","a","l">>,
        template_keys |-> <<<<"e","d","u","c","a","t","i","o","n","a","l">>, <<"d","o","c","u","m","e","n","t","a","r","y">>, <<"n","e","w","s">>, <<"s","c","i","e","n","c","e">>>>],
       [ct_type |-> <<"c","o","n","v","e","r","s","a","t","i","o","n","a","l">>,
        template_keys |-> <<<<"i","n","t","e","r","v","i","e","w">>, <<"p","o","d","c","a","s","t">>, <<"d","e","b","a","t","e">>>>],
       [ct_type |-> <<"n","a","r","r","a","t","i","v","e">>,
        template_keys |-> <<<<"m","o","v","i","e","_","r","e","c","a","p">>, <<"d","o","c","u","m","e","n","t","a","r","y">>, <<"h","i","s","t","o","r","y">>>>],
       [ct_type |-> <<"a","n","a","l","y","t","i","c","a","l">>,
        template_keys |-> <<<<"r","e","v","i","e","w">>, <<"t","e","c","h","n","i","c","a","l">>, <<"s","c","i","e","n","c","e">>, <<"b","u","s","i","n","e","s","s">>>>],
       [ct_type |-> <<"d","e","m","o","n","s","t","r","a","t","i","v","e">>,
        template_keys |-> <<<<"t","u","t","o","r","i","a","l">>, <<"c","o","o","k","i","n","g">>, <<"d","i","y">>, <<"b","e","a","u","t","y">>>>],
       [ct_type |-> <<"e","n","t","e","r","t","a","i","n","i","n","g">>,
        template_keys |-> <<<<"c","o","m","e","d","y">>, <<"e","n","t","e","r","t","a","i","n","m","e","n","t">>, <<"g","a","m","i","n","g">>, <<"r","e","a","c","t","i","o","n">>>>],
       [ct_type |-> <<"p","e","r","s","u","a","s","i","v","e">>,
        template_keys |-> <<<<"m","o","t","i","v","a","t","i","o","n","a","l">>, <<"r","e","v","i","e","w">>, <<"b","u","s","i","n","e","s","s">>>>],
       [ct_type |-> <<"i","n","s","p","i","r","a","t","i","o","n","a","l">>,
        template_keys |-> <<<<"m","o","t","i","v","a","t","i","o","n","a","l">>, <<"s","p","o","r","t","s">>>>]
    >>

\* the KeyError that templates["default"] raises in a store without the
\* key 'default'
KeyErrorDefault == [raised |-> "KeyError", key |-> DefaultTemplate.name]

\* templates.get(key), without the default of line 138
GetOrNone(templates, key) ==
    IF HasKey(templates, key) THEN Lookup(templates, key) ELSE NoTemplate

\* line 138: templates.get(template_key, templates["default"]); the default
\* argument templates["default"] is evaluated before the lookup, so a store
\* without the key 'default' raises KeyError whether template_key is in the
\* store or not
GetOrDefault(templates, key) ==
    IF ~HasKey(templates, DefaultTemplate.name) THEN KeyErrorDefault
    ELSE IF HasKey(templates, key) THEN Lookup(templates, key)
    ELSE Lookup(templates, DefaultTemplate.name)

\* line 162: templates.get("default"), None in a store without the key
GetDefault(templates) ==
    IF HasKey(templates, DefaultTemplate.name) THEN Lookup(templates, DefaultTemplate.name)
    ELSE NoTemplate

\* lines 136-162: the content type tiers and the default
ContentTypeTier(templates, norm_content_type) ==
    LET found == {<<a, b>> \in (1..Len(content_type_mapping)) \X (1..4) :
                     /\ b <= Len(content_type_mapping[a].template_keys)
                     /\ Contains(norm_content_type, content_type_mapping[a].ct_type)
                     /\ HasKey(templates, content_type_mapping[a].template_keys[b])}
    IN IF found = {} THEN GetDefault(templates)
       ELSE LET first == CHOOSE x \in found : \A y \in found :
                            x[1] < y[1] \/ (x[1] = y[1] /\ x[2] <= y[2])
            IN Lookup(templates, content_type_mapping[first[1]].template_keys[first[2]])

\* lines 95-134: the direct match and the genre keyword tier
GenreTier(templates, norm_genre, norm_content_type) ==
    LET hits == {a \in 1..Len(genre_mapping) :
                    \E k \in 1..Len(genre_mapping[a].keywords) :
                        Contains(norm_genre, genre_mapping[a].keywords[k])}
    IN IF HasKey(templates, norm_genre) THEN Lookup(templates, norm_genre)
       ELSE IF hits # {}
       THEN GetOrDefault(templates, genre_mapping[CHOOSE a \in hits : \A b \in hits : a <= b].key)
       ELSE ContentTypeTier(templates, norm_content_type)

\* get_summary_template(genre, content_type, templates, transcript_text, video_title)
get_summary_template(genre, content_type, templates, transcript, title) ==
    LET detected == IF Truthy(transcript) \/ Truthy(title)
                    THEN detect_template_from_content(templates, transcript, title, genre)
                    ELSE NoTemplate
    IN IF detected # NoTemplate THEN detected
       ELSE GenreTier(templates,
                      IF Truthy(genre) THEN Lower(genre) ELSE <<>>,
                      IF Truthy(content_type) THEN Lower(content_type) ELSE <<>>)

\* self.templates of a TranscriptSummarizer when the templates directory
\* holds no YAML file
BuiltinTemplates == load_summary_templates(Missing, Missing)

-----------------------------------------------------------------------------
(* generate_basic_summary and create_comprehensive_summary_async.          *)

NUL == "U+0000"

MAX_LENGTH == 100000

BASIC_PREVIEW == 1000

\* generate_basic_summary(transcript_text, video_title)
generate_basic_summary(t0, title) ==
    LET t1 == IF TLen(t0) > MAX_LENGTH THEN Prefix(t0, MAX_LENGTH) ELSE t0
        t == [head |-> SelectSeq(t1.head, LAMBDA c : c # NUL), pad |-> t1.pad]
        preview_length == Min(BASIC_PREVIEW, TLen(t))
    IN <<"U+00F0","U+0178","U+017D","U+00AC"," ">> \o title
       \o <<"\n","\n","*","*","B","a","s","i","c"," ","S","u","m","m","a","r","y","*","*","\n","\n">>
       \o Chars(Slice(t, 0, preview_length))
       \o (IF TLen(t) > preview_length THEN <<".", ".", ".">> ELSE <<>>)
       \o <<"\n","\n","*","T","r","a","n","s","c","r","i","p","t"," ","c","o","n","t","a","i","n","s"," ",
  "a","p","p","r","o","x","i","m","a","t","e","l","y"," ">>
       \o IntToStr(WordCount(t))
       \o <<" ","w","o","r","d","s",".","*">>

\* summarizer.py line 330: the test for a failed chunk
Unavailable(summary) ==
    /\ StartsWith(summary, <<"[">>)
    /\ Contains(summary, <<"u","n","a","v","a","i","l","a","b","l","e"," ","d","u","e"," ","t","o">>)

\* f"- Chunk {i+1} summary was unavailable"
ErrorNote(i) ==
    <<"-"," ","C","h","u","n","k"," ">> \o IntToStr(i)
    \o <<" ","s","u","m","m","a","r","y"," ","w","a","s"," ","u","n","a","v","a","i","l","a","b","l",
  "e">>

\* lines 325-333: the 1-based positions of the failed chunks, the notes made
\* for them, and the summaries that are kept
UnavailableIdx(cs) == {i \in 1..Len(cs) : Unavailable(cs[i])}

RECURSIVE error_notes(_, _)
error_notes(cs, i) ==
    IF i > Len(cs) THEN <<>>
    ELSE (IF Unavailable(cs[i]) THEN <<ErrorNote(i)>> ELSE <<>>) \o error_notes(cs, i + 1)

valid_summaries(cs) == SelectSeq(cs, LAMBDA x : ~Unavailable(x))

\* a prettifier whose except clause returns nothing
PrettifyDropsText(summary_text) == <<>>

\* prettify_summary_async(summary_text): self.agents has no
\* "prettifier_agent", the lookup raises KeyError and the except clause
\* returns the text as it was given
prettify_summary_async(summary_text) == summary_text

DISCLOSURE_HEADER ==
    <<"\n","\n","-","-","-","\n","\n","*","*","N","o","t","e","*","*",":"," ","T","h","i","s"," ",
  "s","u","m","m","a","r","y"," ","w","a","s"," ","c","r","e","a","t","e","d"," ","w","i","t",
  "h"," ","i","n","c","o","m","p","l","e","t","e"," ","d","a","t","a","."," ","T","h","e"," ",
  "f","o","l","l","o","w","i","n","g"," ","s","e","c","t","i","o","n","s"," ","c","o","u","l",
  "d"," ","n","o","t"," ","b","e"," ","p","r","o","c","e","s","s","e","d",":","\n">>

\* lines 400-411: banner, reply, disclosure note, prettifier
FormattedSummary(cs, info, content, transcript, title) ==
    LET template == get_summary_template(info.genre, info.content_type, BuiltinTemplates,
                                         Chars(Slice(transcript, 0, DETECT_SAMPLE)), title)
        notes == error_notes(cs, 1)
        formatted_summary ==
            template.emoji \o <<" ", "*", "*">> \o Upper(info.genre) \o <<" ">>
            \o Upper(info.content_type) \o <<"*", "*", "\n", "\n">> \o content
    IN prettify_summary_async(
          IF notes # <<>>
          THEN formatted_summary \o DISCLOSURE_HEADER \o Join(notes, <<"\n">>)
          ELSE formatted_summary)

\* f"🎬 **Part {i+1} of {len(chunk_summaries)}**\n\n{summary}"
FallbackPart(i, total, summary) ==
    <<"U+1F3AC">> \o <<" ","*","*","P","a","r","t"," ">> \o IntToStr(i)
    \o <<" ","o","f"," ">> \o IntToStr(total)
    \o <<"*","*","\n","\n">> \o summary

TRANSCRIPT_FALLBACK_CHARS == 10000

FallbackTranscriptWhole(t) == t

\* transcript_text[:10000]
FallbackTranscript(t) == Slice(t, 0, TRANSCRIPT_FALLBACK_CHARS)

\* lines 413-432: the except clause
ExceptFallback(cs, title, transcript) ==
    LET valid == valid_summaries(cs)
    IN IF valid # <<>>
       THEN [path |-> "emergency",
             text |-> <<"U+1F3AC">> \o <<" ","*","*">> \o title
                \o <<"*","*","\n","\n","*","*","E","m","e","r","g","e","n","c","y"," ","F","a","l","l","b","a","c",
  "k"," ","S","u","m","m","a","r","y","*","*","\n","\n","T","h","e"," ","A","I"," ","w","a","s",
  " ","u","n","a","b","l","e"," ","t","o"," ","c","r","e","a","t","e"," ","a"," ","u","n","i",
  "f","i","e","d"," ","s","u","m","m","a","r","y",","," ","s","o"," ","h","e","r","e"," ","a",
  "r","e"," ","t","h","e"," ","i","n","d","i","v","i","d","u","a","l"," ","s","e","c","t","i",
  "o","n"," ","s","u","m","m","a","r","i","e","s",":","\n","\n">>
                \o Join([i \in 1..Len(valid) |-> FallbackPart(i, Len(cs), valid[i])],
                        <<"\n", "\n">>)]
       ELSE [path |-> "basic",
             text |-> generate_basic_summary(FallbackTranscript(transcript), title)]

DefaultClassification ==
    [genre |-> <<"e","d","u","c","a","t","i","o","n","a","l">>,
     content_type |-> <<"i","n","f","o","r","m","a","t","i","o","n","a","l">>]

UnknownClassification ==
    [genre |-> <<"u","n","k","n","o","w","n">>,
     content_type |-> <<"i","n","f","o","r","m","a","t","i","o","n","a","l">>]

\* What the remote service does with the genre detection call: it raises, or
\* its reply holds no JSON object, a JSON object with genre and content_type,
\* a JSON object without the genre key, one without the content_type key,
\* or a JSON object with both keys of which one holds null, a value that
\* is no string.
GenreOutcomes ==
    {[kind |-> "raise"], [kind |-> "no_json"],
     [kind |-> "json", value |-> DefaultClassification],
     [kind |-> "json", value |-> [genre |-> <<"c","o","m","e","d","y">>,
                                  content_type |-> <<"e","n","t","e","r","t","a","i","n","i","n","g">>]],
     [kind |-> "json", value |-> [content_type |-> <<"e","n","t","e","r","t","a","i","n","i","n","g">>]],
     [kind |-> "json", value |-> [genre |-> <<"c","o","m","e","d","y">>]],
     [kind |-> "json", value |-> [genre |-> None,
                                  content_type |-> <<"e","n","t","e","r","t","a","i","n","i","n","g">>]],
     [kind |-> "json", value |-> [genre |-> <<"c","o","m","e","d","y">>, content_type |-> None]],
     [kind |-> "json", value |-> [genre |-> <<"e","d","u","c","a","t","i","o","n","a","l">>,
                                  content_type |-> None]]}

\* detect_video_genre_async, given the outcome of its remote call; with
\* debug_output the print of line 296 reads classification['genre'] and
\* classification['content_type'], and the KeyError of a missing key is
\* caught by the except clause
detect_video_genre_async(outcome, debug) ==
    IF outcome.kind = "raise" \/ outcome.kind = "no_json" THEN DefaultClassification
    ELSE IF debug /\ ("genre" \notin DOMAIN outcome.value
                      \/ "content_type" \notin DOMAIN outcome.value)
    THEN DefaultClassification
    ELSE outcome.value

\* line 364: the genres that get the knowledge base instructions
KNOWLEDGE_GENRES ==
    {<<"e","d","u","c","a","t","i","o","n","a","l">>, <<"t","u","t","o","r","i","a","l">>,
     <<"c","o","u","r","s","e">>, <<"t","e","c","h","n","i","c","a","l">>,
     <<"s","c","i","e","n","c","e">>}

\* lines 345-365: what the assembler does with the classification before it
\* calls the comprehensive agent raises: genre_info["genre"] and
\* genre_info["content_type"] raise KeyError for a missing key;
\* genre_info["genre"].lower() raises AttributeError for a genre that is
\* None, and so does genre_info["content_type"].lower(), which is reached
\* only when the genre is none of line 364
RaisesBeforeComprehensive(info) ==
    \/ "genre" \notin DOMAIN info
    \/ "content_type" \notin DOMAIN info
    \/ info.genre = None
    \/ Lower(info.genre) \notin KNOWLEDGE_GENRES /\ info.content_type = None

\* line 400: genre_info['genre'].upper() and genre_info['content_type'].upper()
\* raise AttributeError for a value that is None
RaisesInBanner(info) == info.genre = None \/ info.content_type = None

Returned(r) ==
    /\ asm_result' = r.text
    /\ asm_path' = r.path
    /\ apc' = "returned"

\* lines 323-343: the partition of the chunk summaries; with none valid the
\* ValueError is raised and the except clause returns; otherwise the genre
\* detection is called (it returns at once for an empty transcript)
AssembleEntry ==
    /\ apc = "entry"
    /\ IF valid_summaries(asm_summaries) = <<>>
       THEN /\ Returned(ExceptFallback(asm_summaries, video_title, transcript_text))
            /\ UNCHANGED genre_info
       ELSE IF TLen(transcript_text) = 0
       THEN /\ genre_info' = UnknownClassification
            /\ apc' = "comprehensive"
            /\ UNCHANGED <<asm_result, asm_path>>
       ELSE /\ apc' = "genre"
            /\ UNCHANGED <<genre_info, asm_result, asm_path>>
    /\ UNCHANGED <<asm_summaries, video_title, transcript_text, debug_output>>
    /\ UNCHANGED notAssemble

\* lines 264-308 and 343-397: the genre detection call ends; a classification
\* without the genre key raises KeyError at line 345, one without the
\* content_type key at line 346, one with a None value AttributeError at
\* lines 364-365
GenreReply ==
    /\ apc = "genre"
    /\ \E outcome \in GenreOutcomes :
          LET info == detect_video_genre_async(outcome, debug_output)
          IN /\ genre_info' = info
             /\ IF ~RaisesBeforeComprehensive(info)
                THEN /\ apc' = "comprehensive"
                     /\ UNCHANGED <<asm_result, asm_path>>
                ELSE Returned(ExceptFallback(asm_summaries, video_title, transcript_text))
    /\ UNCHANGED <<asm_summaries, video_title, transcript_text, debug_output>>
    /\ UNCHANGED notAssemble

UnifiedReply == <<"U","n","i","f","i","e","d"," ","s","u","m","m","a","r","y",".">>

\* lines 398-411 and 413-432: the call of the comprehensive agent ends
ComprehensiveReply ==
    /\ apc = "comprehensive"
    /\ \E raised \in BOOLEAN :
          IF raised \/ RaisesInBanner(genre_info)
          THEN Returned(ExceptFallback(asm_summaries, video_title, transcript_text))
          ELSE Returned([path |-> "normal",
                         text |-> FormattedSummary(asm_summaries, genre_info, UnifiedReply,
                                                  transcript_text, video_title)])
    /\ UNCHANGED <<asm_summaries, video_title, transcript_text, debug_output, genre_info>>
    /\ UNCHANGED notAssemble

\* f"[Summary for chunk {chunk_num} unavailable due to processing error]"
UltimateFallbackMarker(chunk_num) ==
    <<"[","S","u","m","m","a","r","y"," ","f","o","r"," ","c","h","u","n","k"," ">> \o IntToStr(chunk_num)
    \o <<" ","u","n","a","v","a","i","l","a","b","l","e"," ","d","u","e"," ","t","o"," ","p","r","o",
  "c","e","s","s","i","n","g"," ","e","r","r","o","r","]">>

\* the results the chunk processors produce for chunk i (1-based), and a
\* genuine reply that opens with a bracket
ChunkResults(i) ==
    {RemoteReply(i).content,
     ChunkErrorMarker(i - 1),
     UltimateFallbackMarker(i),
     create_fallback_chunk_summary(ShortChunk, i),
     <<"[","1","]"," ","N","o","t","e","s">>}

RECURSIVE SummaryLists(_)
SummaryLists(n) ==
    IF n = 0 THEN {<<>>}
    ELSE LET shorter == SummaryLists(n - 1)
         IN shorter \cup {Append(l, r) : l \in {x \in shorter : Len(x) = n - 1},
                                         r \in ChunkResults(n)}

PARTIAL_LIMIT == 5

\* lists of one more summary than the partial summary of summarize_async
\* keeps: all replies, and replies around one failure marker
ManySummaries ==
    {[i \in 1..(PARTIAL_LIMIT + 1) |-> RemoteReply(i).content],
     [i \in 1..(PARTIAL_LIMIT + 1) |->
         IF i = 2 THEN ChunkErrorMarker(i - 1) ELSE RemoteReply(i).content]}

\* a transcript longer than the part the last fallback reads, with words all
\* the way through
LongTranscript ==
    [head |-> [i \in 1..(TRANSCRIPT_FALLBACK_CHARS + 50) |->
                  IF i % 50 = 0 THEN " " ELSE Letter],
     pad |-> 0]

Transcripts ==
    {[head |-> <<>>, pad |-> 0],
     [head |-> <<"a", ".", " ", "a", NUL, "a">>, pad |-> 0],
     [head |-> <<"a", " ">>, pad |-> BASIC_PREVIEW + 500],
     LongTranscript}

Titles == {<<"T">>, <<"M","y"," ","[","v","]">>}

InitAssemble ==
    /\ asm_summaries \in SummaryLists(MaxSummaries) \cup ManySummaries
    /\ video_title \in Titles
    /\ transcript_text \in Transcripts
    /\ debug_output \in BOOLEAN
    /\ genre_info = [genre |-> <<>>, content_type |-> <<>>]
    /\ asm_result = <<>>
    /\ asm_path = "none"
    /\ apc = "entry"
    /\ IdleChunker
    /\ IdleBatch
    /\ IdleSummarize
    /\ IdleTemplate
    /\ IdleIncremental
    /\ IdleQuiz

NextAssemble == AssembleEntry \/ GenreReply \/ ComprehensiveReply

SpecAssemble == InitAssemble /\ [][NextAssemble]_vars

-----------------------------------------------------------------------------
(* summarize_async: correction, chunking, chunk summaries, assembly, and   *)
(* the whole-run fallback.  The steps of the functions it calls are the    *)
(* actions defined above.                                                  *)

EmptyText == [head |-> <<>>, pad |-> 0]

MAX_TRANSCRIPT_SIZE == 10000000

CORRECTION_THRESHOLD == 3000

OUTER_FALLBACK_CHARS == 100000

\* lines 489-502: chunking parameters by word count
ChunkParams(word_count) ==
    IF word_count > 50000 THEN [chunk_size |-> 6000, overlap |-> 400, max_chunks |-> 50]
    ELSE IF word_count > 20000 THEN [chunk_size |-> 5000, overlap |-> 600, max_chunks |-> 40]
    ELSE [chunk_size |-> 4000, overlap |-> 800, max_chunks |-> 50]

\* chunk.strip() of a text
TextStrip(t) ==
    IF t.pad > 0 THEN [head |-> LStrip(t.head), pad |-> t.pad]
    ELSE [head |-> Strip(t.head), pad |-> 0]

\* text[start:end].strip() for a chunk of create_overlapping_chunks
ChunkText(c) == TextStrip(Slice(text, c.lo, c.hi))

\* What the remote service does with the single-pass correction call: it
\* raises, or it replies with a text (the transcript itself, or nothing).
CorrectionOutcomes(t) ==
    {[raised |-> TRUE, content |-> EmptyText],
     [raised |-> FALSE, content |-> t],
     [raised |-> FALSE, content |-> EmptyText]}

\* correct_transcript_batched, from the results of process_in_batches on:
\* the sort by x['chunk_idx'] raises KeyError on a result that has no such
\* key; failure records have the key and add no part
correct_transcript_batched(results) ==
    IF \E i \in 1..Len(results) : "chunk_idx" \notin DOMAIN results[i]
    THEN [raised |-> TRUE, value |-> EmptyText]
    ELSE [raised |-> FALSE, value |-> EmptyText]

OuterExceptReraise(summaries, t, title) == [path |-> "raised", text |-> <<>>]

\* lines 668-698: the except clause of summarize_async; summaries is the
\* list chunk_summaries, empty when the name is not yet bound
OuterExcept(summaries, t, title) ==
    IF summaries # <<>>
    THEN [path |-> "partial",
          text |-> <<"U+26A0", "U+FE0F">> \o <<" ","*","*","P","a","r","t","i","a","l"," ","S","u","m","m","a","r","y","*","*"," ">>
             \o <<"U+26A0", "U+FE0F", "\n", "\n">>
             \o <<"T","h","i","s"," ","i","s"," ","a","n"," ","i","n","c","o","m","p","l","e","t","e"," ","s",
  "u","m","m","a","r","y"," ","d","u","e"," ","t","o"," ","a"," ","p","r","o","c","e","s","s",
  "i","n","g"," ","e","r","r","o","r",".","\n","\n">>
             \o Join(SubSeq(summaries, 1, Min(PARTIAL_LIMIT, Len(summaries))), <<"\n", "\n">>)]
    ELSE [path |-> "basic",
          text |-> generate_basic_summary(
                      IF TLen(t) > OUTER_FALLBACK_CHARS THEN Prefix(t, OUTER_FALLBACK_CHARS) ELSE t,
                      title)]

NO_TRANSCRIPT == <<"N","o"," ","t","r","a","n","s","c","r","i","p","t"," ","a","v","a","i","l","a","b","l","e",
  " ","t","o"," ","s","u","m","m","a","r","i","z","e",".">>

SummarizeReturned(r) ==
    /\ s_result' = r.text
    /\ s_path' = r.path
    /\ spc' = "returned"

\* the call create_overlapping_chunks(corrected_transcript, chunk_size,
\* overlap, max_chunks) of line 538
StartChunker(corrected) ==
    LET p == ChunkParams(WordCount(s_transcript_text))
    IN /\ text_in' = corrected
       /\ text' = corrected
       /\ chunk_size' = p.chunk_size
       /\ overlap' = p.overlap
       /\ max_chunks' = p.max_chunks
       /\ original_chunk_size' = p.chunk_size
       /\ original_overlap' = p.overlap
       /\ chunks' = <<>>
       /\ start' = 0
       /\ chunk_count' = 0
       /\ printed' = {}
       /\ cpc' = "entry"

\* a call of a batch coordinator
StartBatch(fn, proc, cs) ==
    /\ batch_fn' = fn
    /\ processor_fn' = proc
    /\ batch_chunks' = cs
    /\ tasks' = <<>>
    /\ calls' = [k \in 1..Len(cs) |-> <<>>]
    /\ finished' = <<>>
    /\ chunk_summaries' = <<>>
    /\ processed_results' = <<>>
    /\ bpc' = "create"

\* lines 476-527 and 92-111: entry, size ceiling, the psutil import, and the
\* start of the transcript correction
SummarizeEntry ==
    /\ spc = "entry"
    /\ IF TLen(s_transcript_text) = 0
       THEN /\ SummarizeReturned([path |-> "empty", text |-> NO_TRANSCRIPT])
            /\ UNCHANGED <<s_transcript_text, batchVars>>
       ELSE LET t == IF TLen(s_transcript_text) > MAX_TRANSCRIPT_SIZE
                     THEN Prefix(s_transcript_text, MAX_TRANSCRIPT_SIZE)
                     ELSE s_transcript_text
            IN /\ s_transcript_text' = t
               /\ UNCHANGED <<s_result, s_path>>
               /\ IF TLen(t) > CORRECTION_THRESHOLD
                  THEN /\ StartBatch("process_in_batches", "fix_transcript_chunk",
                                     split_text_into_chunks(t, CORRECTION_CHUNK_SIZE,
                                                            CORRECTION_OVERLAP, 0))
                       /\ spc' = "correcting_batched"
                  ELSE /\ spc' = "correcting"
                       /\ UNCHANGED batchVars
    /\ UNCHANGED <<s_video_title, psutil_available, seq_summaries, seq_calls>>
    /\ UNCHANGED <<chunkerVars, assembleVars, templateVars, incrementalVars, quizVars>>

\* lines 112-143: the single-pass correction call ends; line 538
CorrectionReply ==
    /\ spc = "correcting"
    /\ \E outcome \in CorrectionOutcomes(s_transcript_text) :
          StartChunker(IF outcome.raised THEN s_transcript_text ELSE outcome.content)
    /\ spc' = "chunking"
    /\ UNCHANGED <<s_transcript_text, s_video_title, psutil_available, seq_summaries,
                   seq_calls, s_result, s_path>>
    /\ UNCHANGED <<batchVars, assembleVars, templateVars, incrementalVars, quizVars>>

\* correction.py lines 99-119 and summarizer.py lines 139-143, 538: the
\* batched correction combines its results, or raises and the original
\* transcript is used
CorrectionBatched ==
    /\ spc = "correcting_batched"
    /\ bpc = "returned"
    /\ LET r == correct_transcript_batched(processed_results)
       IN StartChunker(IF r.raised THEN s_transcript_text ELSE r.value)
    /\ spc' = "chunking"
    /\ UNCHANGED <<s_transcript_text, s_video_title, psutil_available, seq_summaries,
                   seq_calls, s_result, s_path>>
    /\ UNCHANGED <<batchVars, assembleVars, templateVars, incrementalVars, quizVars>>

\* a choice of the parallel branch from two chunks on
UseParallelFromTwo(n) == n >= MinParallel - 1

\* line 545: use_parallel = len(chunks) > 2
use_parallel(n) == n >= MinParallel

\* lines 538-575: the chunks are there; the parallel branch reads the local
\* `process`, which is unbound when psutil could not be imported
ChunkingDone ==
    /\ spc = "chunking"
    /\ cpc = "returned"
    /\ LET cs == [i \in 1..Len(chunks) |-> ChunkText(chunks[i])]
       IN IF use_parallel(Len(cs))
          THEN IF psutil_available
               THEN /\ StartBatch("_process_chunks_in_parallel", "process_single_chunk", cs)
                    /\ spc' = "summarizing_parallel"
                    /\ UNCHANGED <<s_result, s_path>>
               ELSE /\ SummarizeReturned(OuterExcept(<<>>, s_transcript_text, s_video_title))
                    /\ UNCHANGED batchVars
          ELSE /\ StartBatch("sequential", "summarize_chunk_async", cs)
               /\ spc' = "summarizing_seq"
               /\ UNCHANGED <<s_result, s_path>>
    /\ seq_summaries' = <<>>
    /\ seq_calls' = <<>>
    /\ UNCHANGED <<s_transcript_text, s_video_title, psutil_available>>
    /\ UNCHANGED <<chunkerVars, assembleVars, templateVars, incrementalVars, quizVars>>

\* lines 576-629: the remote call for the chunk the sequential loop is at
\* ends; retry, append, or fallback summary
SequentialChunkStep ==
    /\ spc = "summarizing_seq"
    /\ Len(seq_summaries) < Len(batch_chunks)
    /\ LET i == Len(seq_summaries) + 1
       IN \E outcome \in RemoteOutcomes(i) :
             LET r == summarize_chunk_async(outcome, i - 1)
                 retry_count == Len(seq_calls) + 1
             IN /\ calls' = [calls EXCEPT ![i] = Append(@, IF outcome.raised THEN "error" ELSE "ok")]
                /\ IF ~r.raised
                   THEN /\ seq_summaries' = Append(seq_summaries, r.value)
                        /\ seq_calls' = <<>>
                   ELSE IF retry_count <= max_retries
                   THEN /\ seq_calls' = Append(seq_calls, "error")
                        /\ UNCHANGED seq_summaries
                   ELSE /\ seq_summaries' = Append(seq_summaries,
                               create_fallback_chunk_summary(batch_chunks[i], i))
                        /\ seq_calls' = <<>>
    /\ UNCHANGED <<s_transcript_text, s_video_title, psutil_available, s_result, s_path, spc>>
    /\ UNCHANGED <<batch_fn, processor_fn, batch_chunks, tasks, finished, chunk_summaries,
                   processed_results, bpc>>
    /\ UNCHANGED <<chunkerVars, assembleVars, templateVars, incrementalVars, quizVars>>

-----------------------------------------------------------------------------
(* The run statistics of summarize_async (lines 640-643).                  *)

FALLBACK_TITLE == <<"F","a","l","l","b","a","c","k"," ","S","u","m","m","a","r","y">>

\* not s.startswith('[') and not "Fallback Summary" in s
CountedSuccessful(s) == ~StartsWith(s, <<"[">>) /\ ~Contains(s, FALLBACK_TITLE)

\* "Fallback Summary" in s
CountedFallback(s) == Contains(s, FALLBACK_TITLE)

\* s.startswith('[') and not "Fallback Summary" in s
CountedFailed(s) == StartsWith(s, <<"[">>) /\ ~Contains(s, FALLBACK_TITLE)

successful_chunks(cs) == Cardinality({i \in 1..Len(cs) : CountedSuccessful(cs[i])})

fallback_chunks(cs) == Cardinality({i \in 1..Len(cs) : CountedFallback(cs[i])})

failed_chunks(cs) == Cardinality({i \in 1..Len(cs) : CountedFailed(cs[i])})

\* lines 635-655: all chunk summaries are there; the call of
\* create_comprehensive_summary_async
SummariesDone ==
    /\ \/ spc = "summarizing_parallel" /\ bpc = "returned"
       \/ spc = "summarizing_seq" /\ Len(seq_summaries) = Len(batch_chunks)
    /\ asm_summaries' = IF spc = "summarizing_parallel" THEN chunk_summaries ELSE seq_summaries
    /\ video_title' = s_video_title
    /\ transcript_text' = s_transcript_text
    /\ genre_info' = [genre |-> <<>>, content_type |-> <<>>]
    /\ asm_result' = <<>>
    /\ asm_path' = "none"
    /\ apc' = "entry"
    /\ spc' = "assembling"
    /\ UNCHANGED debug_output
    /\ UNCHANGED <<s_transcript_text, s_video_title, psutil_available, seq_summaries,
                   seq_calls, s_result, s_path>>
    /\ UNCHANGED <<chunkerVars, batchVars, templateVars, incrementalVars, quizVars>>

\* lines 655-666: the assembler has returned
SummarizeReturn ==
    /\ spc = "assembling"
    /\ apc = "returned"
    /\ SummarizeReturned([path |-> asm_path, text |-> asm_result])
    /\ UNCHANGED <<s_transcript_text, s_video_title, psutil_available, seq_summaries, seq_calls>>
    /\ UNCHANGED <<chunkerVars, batchVars, assembleVars, templateVars, incrementalVars, quizVars>>

\* transcripts for summarize_async: none, blank, short, and lengths that
\* give two correction batches and one chunk, three and two, four and three
SummarizeTranscripts ==
    {EmptyText,
     [head |-> <<" ">>, pad |-> 0],
     [head |-> <<"a", ".", " ", "a">>, pad |-> 0],
     [head |-> <<"a", " ">>, pad |-> CORRECTION_THRESHOLD],
     [head |-> <<"a", " ">>, pad |-> 5000],
     [head |-> <<"a", " ">>, pad |-> 8000]}

InitSummarize ==
    /\ s_transcript_text \in SummarizeTranscripts
    /\ s_video_title \in Titles
    /\ psutil_available \in BOOLEAN
    /\ seq_summaries = <<>>
    /\ seq_calls = <<>>
    /\ s_result = <<>>
    /\ s_path = "none"
    /\ spc = "entry"
    /\ IdleChunker
    /\ IdleBatch
    /\ asm_summaries = <<>>
    /\ video_title = <<>>
    /\ transcript_text = EmptyText
    /\ debug_output \in BOOLEAN
    /\ genre_info = [genre |-> <<>>, content_type |-> <<>>]
    /\ asm_result = <<>>
    /\ asm_path = "none"
    /\ apc = "idle"
    /\ IdleTemplate
    /\ IdleIncremental
    /\ IdleQuiz

NextSummarize ==
    \/ SummarizeEntry
    \/ CorrectionReply
    \/ CreateAllTasks
    \/ \E k \in 1..MaxBatch : ProcessorTaskStep(k)
    \/ GatherBatches
    \/ CorrectionBatched
    \/ ChunkerEntry
    \/ ChunkerIter
    \/ ChunkerExit
    \/ ChunkingDone
    \/ CreateTask
    \/ \E k \in 1..MaxBatch : ChunkTaskStep(k)
    \/ GatherSummaries
    \/ SequentialChunkStep
    \/ SummariesDone
    \/ AssembleEntry
    \/ GenreReply
    \/ ComprehensiveReply
    \/ SummarizeReturn

SpecSummarize == InitSummarize /\ [][NextSummarize]_vars

-----------------------------------------------------------------------------
(* The calls of the template selector that are explored.                   *)

\* get_template_recommendations assigns nothing to templates or a template
StoreSortedByScore(store, transcript, title) ==
    LET score == [i \in 1..Len(store) |->
                     IF store[i].has_keywords
                     THEN RecommendScore(store[i], AnalysisText(transcript, title, RECOMMEND_SAMPLE),
                                         title)
                     ELSE 0]
    IN SortByScore(store, score)

StoreAfterRecommend(store, transcript, title) == store

\* template_loader.py lines 261-317 and summarizer.py lines 286-292: the
\* diagnostic call of get_template_recommendations
Recommend ==
    /\ tlpc = "ready"
    /\ recommendations' = get_template_recommendations(tl_transcript_text, tl_video_title,
                                                       self_templates, 3)
    /\ self_templates' = StoreAfterRecommend(self_templates, tl_transcript_text, tl_video_title)
    /\ tlpc' = "recommended"
    /\ UNCHANGED <<main_yaml, hybrid_yaml, tl_genre, tl_content_type, tl_transcript_text,
                   tl_video_title, detected_template, selected_template>>
    /\ UNCHANGED notTemplate

\* template_loader.py lines 67-162 and summarizer.py lines 344-350: the call
\* of get_summary_template
Select ==
    /\ tlpc \in {"ready", "recommended"}
    /\ detected_template' =
          IF Truthy(tl_transcript_text) \/ Truthy(tl_video_title)
          THEN detect_template_from_content(self_templates, tl_transcript_text, tl_video_title,
                                            tl_genre)
          ELSE NoTemplate
    /\ selected_template' = get_summary_template(tl_genre, tl_content_type, self_templates,
                                                 tl_transcript_text, tl_video_title)
    /\ tlpc' = "selected"
    /\ UNCHANGED <<main_yaml, hybrid_yaml, self_templates, tl_genre, tl_content_type,
                   tl_transcript_text, tl_video_title, recommendations>>
    /\ UNCHANGED notTemplate

KeywordTemplate(name, keywords) ==
    [name |-> name, emoji |-> <<"*">>, tone |-> DefaultTemplate.tone,
     has_keywords |-> TRUE, keywords |-> keywords]

\* contents of summary_templates.yaml: unreadable, or four genre templates,
\* one of them without keywords
MainYamls ==
    {Missing,
     <<KeywordTemplate(<<"e","d","u","c","a","t","i","o","n","a","l">>,
                       <<<<"l","e","a","r","n">>, <<"h","o","w"," ","t","o">>>>),
       KeywordTemplate(<<"c","o","m","e","d","y">>, <<<<"f","u","n","n","y">>>>),
       [name |-> <<"t","e","c","h","n","i","c","a","l">>, emoji |-> <<"*">>,
        tone |-> DefaultTemplate.tone, has_keywords |-> FALSE, keywords |-> <<>>],
       KeywordTemplate(<<"t","u","t","o","r","i","a","l">>, <<<<"s","t","e","p">>>>)>>}

\* contents of hybrid_templates.yaml: unreadable, or one hybrid template
HybridYamls ==
    {Missing,
     <<KeywordTemplate(<<"t","e","c","h","n","i","c","a","l","_","d","e","v","e","l","o","p","e","r">>,
                       <<<<"c","o","d","e">>, <<"a","p","p">>,
                         <<"b","u","i","l","d">>, <<"s","t","r","e","a","m","l","i","t">>>>)>>}

SelectorGenres ==
    {None, <<>>, <<"C","o","m","e","d","y">>, <<"t","e","c","h">>,
     <<"x","y","z">>}

SelectorContentTypes ==
    {None, <<"I","n","s","t","r","u","c","t","i","o","n","a","l">>, <<"x","y","z">>}

SelectorTitles ==
    {None, <<>>, <<"L","e","a","r","n"," ","c","o","d","e">>,
     <<"H","o","w"," ","t","o"," ","B","u","i","l","d"," ","a"," ","S","t","r","e","a","m","l","i",
  "t"," ","A","p","p">>}

SelectorTranscripts ==
    {None, <<>>, <<"w","e"," ","c","o","d","e">>,
     <<"f","u","n","n","y"," ","c","o","d","e"," ","a","p","p">>}

InitTemplate ==
    /\ main_yaml \in MainYamls
    /\ hybrid_yaml \in HybridYamls
    /\ self_templates = load_summary_templates(main_yaml, hybrid_yaml)
    /\ tl_genre \in SelectorGenres
    /\ tl_content_type \in SelectorContentTypes
    /\ tl_transcript_text \in SelectorTranscripts
    /\ tl_video_title \in SelectorTitles
    /\ recommendations = <<>>
    /\ detected_template = NoTemplate
    /\ selected_template = NoTemplate
    /\ tlpc = "ready"
    /\ IdleChunker
    /\ IdleBatch
    /\ IdleAssemble
    /\ IdleSummarize
    /\ IdleIncremental
    /\ IdleQuiz

NextTemplate == Recommend \/ Select

SpecTemplate == InitTemplate /\ [][NextTemplate]_vars

-----------------------------------------------------------------------------
(* The incremental generation of the summary variants                      *)
(* (generate_summaries_incrementally), called by                           *)
(* incremental_summarize_transcript.py and test_incremental_generation.py. *)
(* Its module is not part of the sources at hand: the orchestrator is      *)
(* modelled from section 4.7 of the specification, its callers from their  *)
(* code.                                                                   *)

\* the difficulty levels and length options, in configuration order
AllDifficulties == <<"beginner", "novice", "intermediate", "advanced">>

AllLengths == <<"short", "normal", "long">>

\* incremental_summarize_transcript.py lines 74-81
MainPriority ==
    <<<<"intermediate", "normal">>, <<"beginner", "normal">>, <<"intermediate", "short">>,
      <<"intermediate", "long">>, <<"novice", "normal">>, <<"advanced", "normal">>>>

\* the configured key set, in configuration order
VariantKeys(difficulties, lengths) ==
    [n \in 1..(Len(difficulties) * Len(lengths)) |->
        <<difficulties[((n - 1) \div Len(lengths)) + 1], lengths[((n - 1) % Len(lengths)) + 1]>>]

InSeq(x, xs) == \E i \in 1..Len(xs) : xs[i] = x

\* the order of a run: the priority variants that are configured, then the
\* remainder of the key set
VariantOrder(difficulties, lengths, priority) ==
    LET keys == VariantKeys(difficulties, lengths)
    IN SelectSeq(priority, LAMBDA k : InSeq(k, keys))
       \o SelectSeq(keys, LAMBDA k : ~InSeq(k, priority))

RunOrder == VariantOrder(difficulty_levels, length_options, priority_variants)

\* the summary the pipeline returns for a variant
VariantSummary ==
    <<"A"," ","s","u","m","m","a","r","y",".">>

\* the failure marker: the text the callers test with startswith
FAILURE_MARKER ==
    <<"S","u","m","m","a","r","y"," ","g","e","n","e","r","a","t","i","o","n"," ","f","a","i","l",
  "e","d">>

\* a failed variant left out of the matrix
OmittedEntry(key) == None

\* the entry recorded for a failed variant
FailedEntry(key) == FAILURE_MARKER

\* the matrix before the first variant: no key has an entry
EmptyMatrix(keys) == [n \in 1..Len(keys) |-> None]

\* the index of a key in the configured key set
KeyIndex(key) ==
    CHOOSE n \in 1..Len(all_summaries) :
        VariantKeys(difficulty_levels, length_options)[n] = key

Event(key, status, summary) ==
    [difficulty |-> key[1], length |-> key[2], status |-> status, summary |-> summary]

\* a variant starts: the pipeline is invoked with its difficulty and length
StartVariant ==
    /\ ipc = "ready"
    /\ next_variant <= Len(RunOrder)
    /\ progress_events' = Append(progress_events, Event(RunOrder[next_variant], "started", None))
    /\ ipc' = "running"
    /\ UNCHANGED <<difficulty_levels, length_options, priority_variants, next_variant,
                   all_summaries, total_generated>>
    /\ UNCHANGED notIncremental

\* the pipeline returns the summary of the variant
VariantCompleted ==
    /\ ipc = "running"
    /\ all_summaries' = [all_summaries EXCEPT ![KeyIndex(RunOrder[next_variant])] =
                            VariantSummary]
    /\ progress_events' = Append(progress_events,
                                 Event(RunOrder[next_variant], "completed", VariantSummary))
    /\ next_variant' = next_variant + 1
    /\ ipc' = "ready"
    /\ UNCHANGED <<difficulty_levels, length_options, priority_variants, total_generated>>
    /\ UNCHANGED notIncremental

\* the pipeline fails for the variant: the failure marker is recorded
VariantFailed ==
    /\ ipc = "running"
    /\ all_summaries' = [all_summaries EXCEPT ![KeyIndex(RunOrder[next_variant])] =
                            FailedEntry(RunOrder[next_variant])]
    /\ progress_events' = Append(progress_events, Event(RunOrder[next_variant], "failed", None))
    /\ next_variant' = next_variant + 1
    /\ ipc' = "ready"
    /\ UNCHANGED <<difficulty_levels, length_options, priority_variants, total_generated>>
    /\ UNCHANGED notIncremental

\* the run ends once the whole key set has been gone through
ReturnMatrix ==
    /\ ipc = "ready"
    /\ next_variant > Len(RunOrder)
    /\ ipc' = "returned"
    /\ UNCHANGED <<difficulty_levels, length_options, priority_variants, next_variant,
                   all_summaries, progress_events, total_generated>>
    /\ UNCHANGED notIncremental

\* incremental_summarize_transcript.py lines 111-119: the caller counts the
\* variants that hold a summary
ReportTotals ==
    /\ ipc = "returned"
    /\ total_generated' =
          Cardinality({n \in 1..Len(all_summaries) :
                          /\ Truthy(all_summaries[n])
                          /\ ~StartsWith(all_summaries[n], FAILURE_MARKER)})
    /\ ipc' = "reported"
    /\ UNCHANGED <<difficulty_levels, length_options, priority_variants, next_variant,
                   all_summaries, progress_events>>
    /\ UNCHANGED notIncremental

InitIncremental ==
    /\ difficulty_levels \in {SubSeq(AllDifficulties, 1, n) :
                                 n \in 1..Min(MaxDifficulties, Len(AllDifficulties))}
    /\ length_options \in {SubSeq(AllLengths, 1, n) : n \in 1..Min(MaxLengths, Len(AllLengths))}
    /\ priority_variants \in {<<>>, MainPriority}
    /\ next_variant = 1
    /\ all_summaries = EmptyMatrix(VariantKeys(difficulty_levels, length_options))
    /\ progress_events = <<>>
    /\ total_generated = 0
    /\ ipc = "ready"
    /\ IdleChunker
    /\ IdleBatch
    /\ IdleAssemble
    /\ IdleSummarize
    /\ IdleTemplate
    /\ IdleQuiz

NextIncremental ==
    \/ StartVariant
    \/ VariantCompleted
    \/ VariantFailed
    \/ ReturnMatrix
    \/ ReportTotals

SpecIncremental == InitIncremental /\ [][NextIncremental]_vars

-----------------------------------------------------------------------------
(* generate_quiz.py: generate_questions, calculate_dynamic_question_count, *)
(* generate_algorithmic_questions and create_basic_fallback_questions.     *)
(* Texts are sequences of characters.                                      *)

IsDigit(c) == \E d \in 1..Len(Digits) : Digits[d] = c

\* a pattern is a sequence of characters in which "\\d" stands for a digit
MatchesAt(s, i, pat) ==
    /\ i + Len(pat) - 1 <= Len(s)
    /\ \A k \in 1..Len(pat) :
          IF pat[k] = "\\d" THEN IsDigit(s[i + k - 1]) ELSE s[i + k - 1] = pat[k]

\* the characters s[i] of s[lo..hi] with keep[i], in order
RECURSIVE KeepWhere(_, _, _, _)
KeepWhere(s, keep, lo, hi) ==
    IF lo > hi THEN <<>>
    ELSE IF lo = hi THEN (IF keep[lo] THEN <<s[lo]>> ELSE <<>>)
    ELSE LET mid == (lo + hi) \div 2
         IN KeepWhere(s, keep, lo, mid) \o KeepWhere(s, keep, mid + 1, hi)

\* re.sub(pattern, '', s) for a pattern of fixed length whose first
\* character occurs nowhere else in it, so that no two matches overlap
RemovePattern(s, pat) ==
    LET keep == [i \in 1..Len(s) |->
                    ~\E j \in Max(1, i - Len(pat) + 1)..i : MatchesAt(s, j, pat)]
    IN KeepWhere(s, keep, 1, Len(s))

\* r'\[\d{2}:\d{2}:\d{2}\]'
TimestampPattern == <<"[", "\\d", "\\d", ":", "\\d", "\\d", ":", "\\d", "\\d", "]">>

\* r'\(\d{2}:\d{2}\)'
ShortTimestampPattern == <<"(", "\\d", "\\d", ":", "\\d", "\\d", ")">>

\* the number of digits that follow one another from s[i] on
DigitRun(s, i) ==
    SetMax({d \in 0..(Len(s) - i + 1) : \A k \in 0..(d - 1) : IsDigit(s[i + k])})

\* the length of the match of r'^Speaker \d+: ' (MULTILINE) at s[i], or 0
SpeakerLabelLen(s, i) ==
    LET word == <<"S", "p", "e", "a", "k", "e", "r", " ">>
        d == DigitRun(s, i + Len(word))
    IN IF /\ (i = 1 \/ s[i - 1] = "\n")
          /\ MatchesAt(s, i, word)
          /\ d >= 1
          /\ MatchesAt(s, i + Len(word) + d, <<":", " ">>)
       THEN Len(word) + d + 2
       ELSE 0

\* re.sub(r'^Speaker \d+: ', '', s, flags=re.MULTILINE)
RemoveSpeakerLabels(s) ==
    LET keep == [i \in 1..Len(s) |-> ~\E j \in 1..i : SpeakerLabelLen(s, j) > i - j]
    IN KeepWhere(s, keep, 1, Len(s))

\* re.sub(r'\s+', ' ', s)
CollapseWhitespace(s) ==
    LET spaced == [i \in 1..Len(s) |-> IF s[i] \in Whitespace THEN " " ELSE s[i]]
        keep == [i \in 1..Len(s) |-> s[i] \notin Whitespace \/ i = 1 \/ s[i - 1] \notin Whitespace]
    IN KeepWhere(spaced, keep, 1, Len(s))

\* clean_transcript(text)
clean_transcript(s) ==
    Strip(CollapseWhitespace(
             RemoveSpeakerLabels(
                RemovePattern(RemovePattern(s, TimestampPattern), ShortTimestampPattern))))

SentenceEnd == {".", "!", "?"}

\* re.split(r'[.!?]+', s)
RECURSIVE SplitSentences(_)
SplitSentences(s) ==
    IF \A k \in 1..Len(s) : s[k] \notin SentenceEnd THEN <<s>>
    ELSE LET k == CHOOSE k \in 1..Len(s) :
                     s[k] \in SentenceEnd /\ \A j \in 1..(k - 1) : s[j] \notin SentenceEnd
             e == CHOOSE e \in k..Len(s) :
                     /\ \A j \in k..e : s[j] \in SentenceEnd
                     /\ e = Len(s) \/ s[e + 1] \notin SentenceEnd
         IN <<SubSeq(s, 1, k - 1)>> \o SplitSentences(SubSeq(s, e + 1, Len(s)))

\* [p.strip() for p in parts if len(p.strip()) > n]
LongerThan(parts, n) ==
    LET stripped == [k \in 1..Len(parts) |-> Strip(parts[k])]
    IN SelectSeq(stripped, LAMBDA p : Len(p) > n)

\* s.split()
RECURSIVE SplitWords(_)
SplitWords(s) ==
    LET t == LStrip(s)
    IN IF t = <<>> THEN <<>>
       ELSE LET ends == {k \in 1..Len(t) : t[k] \in Whitespace}
                k == IF ends = {} THEN Len(t) + 1
                     ELSE CHOOSE k \in ends : \A j \in ends : k <= j
            IN <<SubSeq(t, 1, k - 1)>> \o SplitWords(SubSeq(t, k, Len(t)))

\* set(re.findall(r'\b\w+\b', s)): the maximal runs of word characters
UniqueWords(s) ==
    LET starts == {i \in 1..Len(s) : s[i] \in WordChars /\ (i = 1 \/ s[i - 1] \notin WordChars)}
        stop(i) == CHOOSE j \in i..Len(s) :
                      /\ \A k \in i..j : s[k] \in WordChars
                      /\ j = Len(s) \/ s[j + 1] \notin WordChars
    IN {SubSeq(s, i, stop(i)) : i \in starts}

\* density_multipliers.get(content_density, 1.0), in tenths
DensityTenths(density) ==
    IF density = "low" THEN 6 ELSE IF density = "high" THEN 14 ELSE 10

\* calculate_dynamic_question_count(transcript, summary, content_density);
\* the complexity score is kept in hundredths.  The cleaned text holds no
\* line break, so the split into paragraphs leaves it whole.
calculate_dynamic_question_count(transcript, summary, density) ==
    LET cleaned_transcript == clean_transcript(transcript)
        transcript_length == Len(cleaned_transcript)
        sentence_count == Len(LongerThan(SplitSentences(cleaned_transcript), 20))
        paragraph_count == Len(LongerThan(<<cleaned_transcript>>, 50))
        unique_words == Cardinality(UniqueWords(Lower(cleaned_transcript)))
        complexity_score == Min(100 * 100, (sentence_count * 2) * 100 + (paragraph_count * 3) * 100
                                           + unique_words * 10 + transcript_length)
        base_questions == Max(3, Min(15, complexity_score \div 1000))
        question_count == Max(3, Min(20, (base_questions * DensityTenths(density)) \div 10))
    IN Min(question_count, sentence_count)

\* lines 192-201: a sentence of more than 200 characters is cut into chunks
\* of 50 words; the chunks of more than 30 characters are kept
RECURSIVE WordChunks(_)
WordChunks(words) ==
    IF words = <<>> THEN <<>>
    ELSE LET chunk == Join(SubSeq(words, 1, Min(50, Len(words))), <<" ">>)
         IN (IF Len(chunk) > 30 THEN <<chunk>> ELSE <<>>)
            \o WordChunks(SubSeq(words, 51, Len(words)))

\* lines 185-203: the usable chunks of the sentences
RECURSIVE UsableChunks(_)
UsableChunks(sentences) ==
    IF sentences = <<>> THEN <<>>
    ELSE LET sentence == Head(sentences)
         IN (IF Len(sentence) < 30 THEN <<>>
             ELSE IF Len(sentence) > 200 THEN WordChunks(SplitWords(sentence))
             ELSE <<sentence>>)
            \o UsableChunks(Tail(sentences))

TheVideoDiscusses ==
    <<"T","h","e"," ","v","i","d","e","o"," ","d","i","s","c","u","s","s","e","s"," ">>

TheVideoDiscussesColon ==
    <<"T","h","e"," ","v","i","d","e","o"," ","d","i","s","c","u","s","s","e","s",":"," ">>

ThisVideoIsAbout ==
    <<"T","h","i","s"," ","v","i","d","e","o"," ","i","s"," ","a","b","o","u","t",":"," ">>

\* lines 316-341: the true/false question made from a sentence
TrueFalseQuestion(id, sentence, is_true) ==
    [id |-> id,
     question |-> TheVideoDiscusses \o SubSeq(sentence, 1, Min(50, Len(sentence)))
                  \o <<".", ".", ".">>,
     correctAnswer |-> IF is_true THEN "a" ELSE "b",
     questionType |-> "true_false"]

\* create_basic_fallback_questions(title, summary, num_questions, ...)
create_basic_fallback_questions(title, summary, n) ==
    LET summary_sentences == LongerThan(SplitSentences(summary), 10)
    IN [i \in 1..n |->
           [id |-> i,
            question |-> IF i <= Len(summary_sentences)
                         THEN TheVideoDiscussesColon
                              \o SubSeq(summary_sentences[i], 1,
                                        Min(100, Len(summary_sentences[i])))
                              \o <<".", ".", ".">>
                         ELSE ThisVideoIsAbout \o title,
            correctAnswer |-> "a",
            questionType |-> "true_false"]]

\* What the remote service does with the quiz request: the call raises, the
\* reply holds no JSON object, a JSON object without a questions list, an
\* empty questions list, or a list of questions.
QuizOutcomes == {"raise", "no_json", "no_questions_key", "empty_questions", "questions"}

\* the quiz of a reply that holds questions
AIQuiz ==
    <<[id |-> 1, question |-> <<"Q", "?">>, correctAnswer |-> "a",
       questionType |-> "multiple_choice"]>>

QuizReturned(path, quiz) ==
    /\ questions' = quiz
    /\ q_path' = path
    /\ qpc' = "returned"

\* lines 458-464: the number of questions, and the choice of the generator
QuizEntry ==
    /\ qpc = "entry"
    /\ num_questions' = calculate_dynamic_question_count(q_transcript, q_summary,
                                                         content_density)
    /\ qpc' = IF azure_configured THEN "remote" ELSE "algorithmic"
    /\ UNCHANGED <<q_transcript, q_title, q_summary, content_density, azure_configured,
                   usable_chunks, chunk_i, question_id, questions, q_path>>
    /\ UNCHANGED notQuiz

\* lines 465-710: the remote call ends and its reply is read; whatever is
\* raised on the way leads to the algorithmic generator
QuizRemoteReply ==
    /\ qpc = "remote"
    /\ \E outcome \in QuizOutcomes :
          IF outcome = "questions"
          THEN QuizReturned("ai", AIQuiz)
          ELSE /\ qpc' = "algorithmic"
               /\ UNCHANGED <<questions, q_path>>
    /\ UNCHANGED <<q_transcript, q_title, q_summary, content_density, azure_configured,
                   num_questions, usable_chunks, chunk_i, question_id>>
    /\ UNCHANGED notQuiz

\* lines 173-221: generate_algorithmic_questions up to its loop; without a
\* usable chunk it returns the basic fallback questions
AlgorithmicStart ==
    /\ qpc = "algorithmic"
    /\ LET chunks_found == UsableChunks(LongerThan(SplitSentences(clean_transcript(q_transcript)),
                                                  20))
       IN /\ usable_chunks' = chunks_found
          /\ IF Len(chunks_found) < 1
             THEN QuizReturned("basic",
                               create_basic_fallback_questions(q_title, q_summary, num_questions))
             ELSE /\ qpc' = "loop"
                  /\ UNCHANGED <<questions, q_path>>
    /\ UNCHANGED <<q_transcript, q_title, q_summary, content_density, azure_configured,
                   num_questions, chunk_i, question_id>>
    /\ UNCHANGED notQuiz

\* lines 223-345: one pass of the loop.  The code that makes a multiple
\* choice question stands after the continue of the branch for sentences of
\* more than 200 characters and is never run: every question is made by the
\* else branch, a true/false question with a random answer.
AlgorithmicIter ==
    /\ qpc = "loop"
    /\ chunk_i < Min(num_questions, Len(usable_chunks))
    /\ question_id <= num_questions
    /\ LET sentence == usable_chunks[chunk_i + 1]
       IN IF Len(sentence) < 30 \/ Len(sentence) > 200
          THEN UNCHANGED <<questions, question_id>>
          ELSE \E is_true \in BOOLEAN :
                  /\ questions' = Append(questions,
                                         TrueFalseQuestion(question_id, sentence, is_true))
                  /\ question_id' = question_id + 1
    /\ chunk_i' = chunk_i + 1
    /\ UNCHANGED <<q_transcript, q_title, q_summary, content_density, azure_configured,
                   num_questions, usable_chunks, q_path, qpc>>
    /\ UNCHANGED notQuiz

\* lines 347-348: the loop has ended
AlgorithmicReturn ==
    /\ qpc = "loop"
    /\ ~(chunk_i < Min(num_questions, Len(usable_chunks)) /\ question_id <= num_questions)
    /\ QuizReturned("algorithmic", questions)
    /\ UNCHANGED <<q_transcript, q_title, q_summary, content_density, azure_configured,
                   num_questions, usable_chunks, chunk_i, question_id>>
    /\ UNCHANGED notQuiz

MediumSentence(n) ==
    <<"T","h","i","s"," ","i","s"," ","a"," ","s","e","n","t","e","n","c","e"," ","o","f"," ","m",
  "e","d","i","u","m"," ","l","e","n","g","t","h"," ">> \o IntToStr(n) \o <<".">>

\* one sentence of 50 words of five letters
LongSentence ==
    Join([k \in 1..50 |-> <<"a", "b", "c", "d", "e">>], <<" ">>) \o <<".">>

QuizTranscripts ==
    {<<>>,
     <<"H","i",".">>,
     <<"T","h","i","s"," ","s","e","n","t","e","n","c","e"," ","i","s"," ","s","h","o","r","t"," ",
  "o","k",".">>,
     MediumSentence(1),
     LongSentence,
     LongSentence \o <<" ">> \o MediumSentence(1),
     Join([k \in 1..4 |-> MediumSentence(k)], <<" ">>),
     <<"S","p","e","a","k","e","r"," ","1",":"," ","[","0","0",":","0","1",":","0","2","]"," ","T",
  "h","i","s"," ","i","s"," "," ","a"," ","s","e","n","t","e","n","c","e","\\","n","S","p","e",
  "a","k","e","r"," ","2","2",":"," ","(","0","1",":","0","2",")"," ","o","f"," ","m","e","d",
  "i","u","m"," ","l","e","n","g","t","h","!"," ","S","p","e","a","k","e","r"," ","3",":"," ",
  "o","k">>}

QuizSummaries ==
    {<<>>,
     <<"A"," ","s","u","m","m","a","r","y"," ","o","f"," ","t","h","e"," ","v","i","d","e","o",".",
  " ","S","h","o","r","t",".">>}

InitQuiz ==
    /\ q_transcript \in QuizTranscripts
    /\ q_title = <<"T">>
    /\ q_summary \in QuizSummaries
    /\ content_density \in {"low", "medium", "high", "other"}
    /\ azure_configured \in BOOLEAN
    /\ num_questions = 0
    /\ usable_chunks = <<>>
    /\ chunk_i = 0
    /\ question_id = 1
    /\ questions = <<>>
    /\ q_path = "none"
    /\ qpc = "entry"
    /\ IdleChunker
    /\ IdleBatch
    /\ IdleAssemble
    /\ IdleSummarize
    /\ IdleTemplate
    /\ IdleIncremental

NextQuiz ==
    \/ QuizEntry
    \/ QuizRemoteReply
    \/ AlgorithmicStart
    \/ AlgorithmicIter
    \/ AlgorithmicReturn

SpecQuiz == InitQuiz /\ [][NextQuiz]_vars

-----------------------------------------------------------------------------
(* The calls of create_overlapping_chunks that are explored.                *)

\* the arguments: every short text over the alphabet, and texts around the
\* size ceiling; chunk_size > overlap >= 0, max_chunks >= 1
ChunkerTexts ==
    {[head |-> h, pad |-> 0] : h \in SeqsUpTo(Alphabet, MaxHead)}
    \cup {[head |-> h, pad |-> p] : h \in SeqsUpTo(Alphabet, 1), p \in {MidPad, MAX_TEXT_SIZE}}

\* texts with a sentence break and a space past the midpoint of a chunk of
\* BoundarySize characters, the space behind the break or before it, and
\* texts with spaces only
BoundaryTexts ==
    {[head |-> h, pad |-> p] :
        h \in {<<"a", "a", "a", "a", ".", " ", " ", "a">>,
               <<"a", "a", "a", "a", " ", ".", " ", "a">>,
               <<"a", "a", "a", "a", " ", "a", " ", "a">>,
               <<"a", "a", "a", ".", " ", "a", "a", "a">>},
        p \in {0, BoundaryPad}}

InitChunker ==
    /\ \/ /\ text_in \in ChunkerTexts
          /\ chunk_size \in 1..MaxChunkSize
       \/ /\ text_in \in BoundaryTexts
          /\ chunk_size = BoundarySize
    /\ text = text_in
    /\ overlap \in 0..(chunk_size - 1)
    /\ max_chunks \in 1..MaxMaxChunks
    /\ original_chunk_size = chunk_size
    /\ original_overlap = overlap
    /\ chunks = <<>>
    /\ start = 0
    /\ chunk_count = 0
    /\ printed = {}
    /\ cpc = "entry"
    /\ IdleBatch
    /\ IdleAssemble
    /\ IdleSummarize
    /\ IdleTemplate
    /\ IdleIncremental
    /\ IdleQuiz

NextChunker == ChunkerEntry \/ ChunkerIter \/ ChunkerExit

SpecChunker == InitChunker /\ [][NextChunker]_vars

\* create_overlapping_chunks runs on: a call that can take its next step
\* takes it
SpecChunkerLive ==
    /\ InitChunker
    /\ [][NextChunker]_vars
    /\ WF_vars(ChunkerEntry)
    /\ WF_vars(ChunkerIter)
    /\ WF_vars(ChunkerExit)

-----------------------------------------------------------------------------
(* Properties of create_overlapping_chunks.                                *)

\* offset i lies in the range of a returned chunk
Covered(i) == \E k \in 1..Len(chunks) : chunks[k].lo <= i /\ i < chunks[k].hi

\* Some non-whitespace character of t lies in the range of no returned
\* chunk.  The pad holds letters only; if one of its offsets is uncovered,
\* so is the first offset of the pad or the offset where a chunk ends.
Uncovered(t) ==
    \/ \E i \in 0..(Len(t.head) - 1) : CharAt(t, i) \notin Whitespace /\ ~Covered(i)
    \/ \E i \in {Len(t.head)} \cup {chunks[k].hi : k \in 1..Len(chunks)} :
           Len(t.head) <= i /\ i < TLen(t) /\ ~Covered(i)

\* the number of offsets that the ranges of chunks i and j have in common
Shared(i, j) ==
    Max(0, Min(chunks[i].hi, chunks[j].hi) - Max(chunks[i].lo, chunks[j].lo))

\* C4 (as claimed): when the call returns for a non-empty text, every
\* non-whitespace character of the text, cut to MAX_TEXT_SIZE, lies in the
\* range of some returned chunk.
C4_CoversWholeText ==
    (cpc = "returned" /\ TLen(text_in) > 0) => ~Uncovered(text)

\* C5: the list of chunks never holds more than max_chunks chunks.
C5_AtMostMaxChunks == Len(chunks) <= max_chunks

C5_Witness ==
    /\ cpc = "returned"
    /\ Len(chunks) = max_chunks
    /\ start < TLen(text)
    /\ "incomplete" \in printed

\* C6: two adjacent chunks share at least 0 and at most `overlap` characters,
\* where overlap is the caller's argument, also after the adaptive resizing.
C6_OverlapBound ==
    \A i \in 1..(Len(chunks) - 1) :
        Shared(i, i + 1) >= 0 /\ Shared(i, i + 1) <= original_overlap

C6_Witness ==
    /\ cpc = "returned"
    /\ "adjusted" \in printed
    /\ 0 < overlap /\ overlap < original_overlap
    /\ \E i \in 1..(Len(chunks) - 1) : Shared(i, i + 1) = overlap

\* C7 (as claimed): the start offset used for a chunk is greater than the
\* start offset used for the chunk before it.
C7_StartsIncrease ==
    \A i \in 1..(Len(chunks) - 1) : chunks[i + 1].start > chunks[i].start

\* C8: when the call returns and some non-whitespace character of the
\* caller's text lies in no chunk, the call has printed a warning (the size
\* ceiling's or the chunk limit's).
C8_NoSilentDrop ==
    (cpc = "returned" /\ Uncovered(text_in)) =>
        printed \cap {"truncated", "incomplete"} # {}

C8_Witness ==
    /\ cpc = "returned"
    /\ Uncovered(text_in)
    /\ "truncated" \notin printed
    /\ "incomplete" \in printed

-----------------------------------------------------------------------------
(* Properties of the batch coordinators and the chunk processor.           *)

\* a result of _process_chunks_in_parallel that was made for chunk i (1-based)
SummaryOfChunk(r, i) ==
    \/ r = RemoteReply(i).content
    \/ r = BracketReply(i).content
    \/ r = ChunkErrorMarker(i - 1)
    \/ r = create_fallback_chunk_summary(batch_chunks[i], i)

\* a result of process_in_batches that was made for chunk i (1-based)
BatchResultOfChunk(r, i) ==
    IF "success" \in DOMAIN r
    THEN r.chunk_idx = i /\ r.result = batch_chunks[i] /\ ~r.success
    ELSE /\ r.orig_transcript = batch_chunks[i]
         /\ r.fixed_transcript \in {batch_chunks[i], FixedReply(batch_chunks[i], i).fixed_transcript}

\* C1: a batch of N chunks returns exactly N results and result i is the
\* result made for chunk i, in _process_chunks_in_parallel and in
\* process_in_batches, whatever the order in which the tasks completed and
\* whichever remote calls failed.
C1_ResultPerChunk ==
    /\ (batch_fn = "_process_chunks_in_parallel" /\ bpc = "returned") =>
          /\ Len(chunk_summaries) = Len(batch_chunks)
          /\ \A i \in 1..Len(chunk_summaries) : SummaryOfChunk(chunk_summaries[i], i)
    /\ (batch_fn = "process_in_batches" /\ bpc = "returned") =>
          /\ Len(processed_results) = Len(batch_chunks)
          /\ \A i \in 1..Len(processed_results) : BatchResultOfChunk(processed_results[i], i)

\* a returned batch of three or more chunks whose last task completed first,
\* with a failed remote call for one chunk and a reply for another
C1_Witness ==
    /\ bpc = "returned"
    /\ batch_fn = "_process_chunks_in_parallel"
    /\ Len(chunk_summaries) >= MinParallel
    /\ finished[1] = Len(tasks)
    /\ \E i, j \in 1..Len(tasks) : calls[i] = <<"error">> /\ calls[j] = <<"ok">>

\* all remote calls made for chunk k raised, and the processor is done with it
GaveUp(k) ==
    /\ batch_fn = "_process_chunks_in_parallel"
    /\ tasks[k].state = "done"
    /\ \A c \in 1..Len(calls[k]) : calls[k][c] = "error"

\* C2: a chunk whose remote call raises on every attempt is attempted exactly
\* 3 times (1 initial attempt and max_retries retries) before the processor
\* gives up on it, and no chunk is attempted more than 3 times.
C2_ThreeAttempts ==
    \A k \in 1..Len(tasks) :
        /\ Len(calls[k]) <= max_retries + 1
        /\ GaveUp(k) => Len(calls[k]) = max_retries + 1

\* C3: the result for a chunk whose remote call raises on every attempt is
\* the fallback summary of _create_fallback_chunk_summary (preview of the
\* first 150 characters, word count, fallback tag).
C3_FallbackOnExhaustion ==
    \A k \in 1..Len(tasks) :
        GaveUp(k) => tasks[k].result = create_fallback_chunk_summary(batch_chunks[k], k)

\* the remote call made for chunk k failed
CallFailed(k) == \E c \in 1..Len(calls[k]) : calls[k][c] = "error"

\* task k ran to the result of its own chunk
OwnResult(k) ==
    /\ tasks[k].state = "done"
    /\ Len(calls[k]) >= 1
    /\ IF batch_fn = "_process_chunks_in_parallel"
       THEN /\ SummaryOfChunk(tasks[k].result, k)
            /\ ~CallFailed(k) =>
                  tasks[k].result \in {RemoteReply(k).content, BracketReply(k).content}
       ELSE /\ tasks[k].exception \/ BatchResultOfChunk(tasks[k].result, k)
            /\ ~CallFailed(k) => tasks[k].result = FixedReply(batch_chunks[k], k)

\* C17: the parallel coordinators return only after every chunk task has
\* finished, and a chunk whose remote call fails cancels no sibling: every
\* other chunk's task runs to its own result.
C17_WaitsForAllTasks ==
    bpc = "returned" =>
        /\ Len(tasks) = Len(batch_chunks)
        /\ \A k \in 1..Len(tasks) : tasks[k].state = "done"
        /\ \A k \in 1..Len(tasks) :
              CallFailed(k) => \A j \in 1..Len(tasks) : j # k => OwnResult(j)

\* a returned batch whose first finished task is one whose remote call
\* failed, with siblings that finished later with a reply
C17_Witness ==
    /\ bpc = "returned"
    /\ Len(tasks) >= MinParallel
    /\ CallFailed(finished[1])
    /\ \A j \in 1..Len(tasks) : j # finished[1] => ~CallFailed(j) /\ OwnResult(j)

-----------------------------------------------------------------------------
(* Properties of create_comprehensive_summary_async.                       *)

\* the failure markers the chunk processors write for chunk i (1-based)
FailureMarkers(i) == {ChunkErrorMarker(i - 1), UltimateFallbackMarker(i)}

SkippedChunks == {i \in 1..Len(asm_summaries) : asm_summaries[i] \in FailureMarkers(i)}

\* C9: when no chunk result is usable (all are failure markers, or there is
\* none), create_comprehensive_summary_async returns the basic extractive
\* summary of the first 10,000 characters of the transcript; it is not empty
\* and it contains the video title.
C9_BasicSummaryWhenNoneUsable ==
    (apc = "returned" /\ SkippedChunks = 1..Len(asm_summaries)) =>
        /\ asm_result = generate_basic_summary(
                            Slice(transcript_text, 0, TRANSCRIPT_FALLBACK_CHARS), video_title)
        /\ asm_result # <<>>
        /\ Contains(asm_result, video_title)
        /\ Contains(asm_result, <<"*","*","B","a","s","i","c"," ","S","u","m","m","a","r","y","*","*">>)

\* two failure markers and a transcript longer than the part that is read
C9_Witness ==
    /\ apc = "returned"
    /\ Len(asm_summaries) >= 2
    /\ SkippedChunks = 1..Len(asm_summaries)
    /\ TLen(transcript_text) > TRANSCRIPT_FALLBACK_CHARS
    /\ asm_path = "basic"

\* C10: when at least one chunk result was unavailable and at least one was
\* usable, the returned text discloses the partial data and lists every
\* skipped chunk, on the normal path and on the fallback paths.
C10_DisclosesSkippedChunks ==
    (apc = "returned" /\ SkippedChunks # {} /\ SkippedChunks # 1..Len(asm_summaries)) =>
        /\ Contains(asm_result, <<"i","n","c","o","m","p","l","e","t","e"," ","d","a","t","a">>)
        /\ \A i \in SkippedChunks : Contains(asm_result, ErrorNote(i))

\* C14: every classification the genre detection returns has a genre and a
\* content type; a failed classification (the remote call raised, or its
\* reply holds no object with the two fields) is returned as
\* {genre: educational, content_type: informational}, so that with
\* debug_output on and off no classification lacks a field.
C14_ClassificationComplete ==
    apc \in {"comprehensive", "returned"} =>
        /\ "genre" \in DOMAIN genre_info /\ genre_info.genre # None
        /\ "content_type" \in DOMAIN genre_info /\ genre_info.content_type # None

\* C15: the prettify pass fails (the agents hold no prettifier and no
\* prompt file exists), prettify_summary_async raises nothing and returns its
\* input, so the caller gets the assembled summary: banner, reply and, when
\* chunks were skipped, the disclosure note with every skipped chunk.
C15_PrettifyOptional ==
    (apc = "returned" /\ asm_path = "normal") =>
        /\ Contains(asm_result, <<"*", "*">> \o Upper(genre_info.genre) \o <<" ">>
                                \o Upper(genre_info.content_type) \o <<"*", "*", "\n", "\n">>
                                \o UnifiedReply)
        /\ SkippedChunks # {} =>
              /\ Contains(asm_result, DISCLOSURE_HEADER)
              /\ \A i \in SkippedChunks : Contains(asm_result, ErrorNote(i))

\* a summary assembled on the normal path with a skipped chunk
C15_Witness ==
    /\ apc = "returned"
    /\ asm_path = "normal"
    /\ SkippedChunks # {}
    /\ Contains(asm_result, DISCLOSURE_HEADER)

\* the valid chunk summaries, in order, that the returned text holds
IncludedSummaries ==
    {i \in 1..Len(valid_summaries(asm_summaries)) :
        Contains(asm_result, valid_summaries(asm_summaries)[i])}

\* C18: when the assembly fails while valid chunk summaries exist, the
\* fallback is a concatenation of valid chunk summaries that holds at most
\* the first 5 of them; the basic summary of the raw transcript is returned
\* only when no chunk summary is valid.
C18_FallbackCappedAtFive ==
    /\ (apc = "returned" /\ asm_path = "emergency") =>
          /\ IncludedSummaries # {}
          /\ IncludedSummaries \subseteq 1..PARTIAL_LIMIT
    /\ (apc = "returned" /\ asm_path = "basic") => valid_summaries(asm_summaries) = <<>>

-----------------------------------------------------------------------------
(* Properties of summarize_async.                                          *)

\* C11: summarize_async lets no exception through to its caller and the text
\* it returns is never empty, whatever the transcript, the title and the
\* remote calls that fail.
C11_AlwaysReturnsText ==
    /\ s_path # "raised"
    /\ spc = "returned" => s_result # <<>>

\* a run that ended in the whole-run fallback: three or more chunks, and the
\* parallel branch failed on the unbound local `process`
C11_Witness ==
    /\ spc = "returned"
    /\ s_path = "basic"
    /\ Len(chunks) >= MinParallel
    /\ ~psutil_available
    /\ \E k \in 1..Len(calls) : calls[k] = <<"error">>

-----------------------------------------------------------------------------
(* Properties of the template selector.                                    *)

\* the genre and content type as get_summary_template normalises them
NormGenre == IF Truthy(tl_genre) THEN Lower(tl_genre) ELSE <<>>

NormContentType == IF Truthy(tl_content_type) THEN Lower(tl_content_type) ELSE <<>>

\* no tier of the selection matches: the detection chose nothing, the genre
\* is no key of the store and holds no genre keyword, and the content type
\* names no template of the store
NoTierMatches ==
    /\ detected_template = NoTemplate
    /\ ~HasKey(self_templates, NormGenre)
    /\ \A a \in 1..Len(genre_mapping) : \A k \in 1..Len(genre_mapping[a].keywords) :
          ~Contains(NormGenre, genre_mapping[a].keywords[k])
    /\ \A a \in 1..Len(content_type_mapping) :
          Contains(NormContentType, content_type_mapping[a].ct_type)
          => \A b \in 1..Len(content_type_mapping[a].template_keys) :
                ~HasKey(self_templates, content_type_mapping[a].template_keys[b])

\* C12: get_summary_template, called with the loaded store, returns a
\* template of the store for every genre, content type, transcript and
\* title, None and empty ones included, and returns the default template
\* when no tier matches.
C12_TemplateAlwaysReturned ==
    tlpc = "selected" =>
        /\ selected_template # NoTemplate
        /\ \E i \in 1..Len(self_templates) : self_templates[i] = selected_template
        /\ NoTierMatches => selected_template.name = DefaultTemplate.name

\* a selection with all inputs None from a store of several templates
C12_Witness ==
    /\ tlpc = "selected"
    /\ tl_genre = None /\ tl_content_type = None
    /\ tl_transcript_text = None /\ tl_video_title = None
    /\ Len(self_templates) > 1
    /\ NoTierMatches
    /\ selected_template = Lookup(self_templates, DefaultTemplate.name)

\* the templates the detection scores and the score of each for the inputs
ScoredTemplates == Scored(self_templates)

DetectionScores ==
    [i \in 1..Len(ScoredTemplates) |->
        DetectScore(ScoredTemplates[i],
                    AnalysisText(tl_transcript_text, tl_video_title, DETECT_SAMPLE),
                    tl_video_title, tl_genre)]

HighestScore == SetMax({DetectionScores[i] : i \in 1..Len(ScoredTemplates)} \cup {0})

\* C13: the detection returns a template only if no template scores higher
\* and its score is at least 3; when the highest score is below 3 the
\* detection chooses nothing and the selection is that of the genre and
\* content type tiers.
C13_DetectionThreshold ==
    tlpc = "selected" =>
        /\ detected_template # NoTemplate =>
              \E i \in 1..Len(ScoredTemplates) :
                  /\ ScoredTemplates[i] = detected_template
                  /\ DetectionScores[i] = HighestScore
                  /\ DetectionScores[i] >= 3
        /\ HighestScore < 3 =>
              /\ detected_template = NoTemplate
              /\ selected_template = GenreTier(self_templates, NormGenre, NormContentType)

\* a detection over a transcript whose best template scores 2
C13_Witness ==
    /\ tlpc = "selected"
    /\ Truthy(tl_transcript_text)
    /\ HighestScore = 2
    /\ detected_template = NoTemplate
    /\ selected_template = GenreTier(self_templates, NormGenre, NormContentType)

-----------------------------------------------------------------------------
(* Properties of the incremental generation.                               *)

ConfiguredKeys == VariantKeys(difficulty_levels, length_options)

\* the variant at place i of the run order failed
FailedAt(i) ==
    \E e \in 1..Len(progress_events) :
        progress_events[e] = Event(RunOrder[i], "failed", None)

\* C16: a run over a key set of K variants ends only when every key has an
\* entry; the matrix returned has K entries, each a summary or a failure
\* marker, and a failed variant, recorded as a marker, keeps no later
\* variant from being generated.
C16_MatrixComplete ==
    ipc \in {"returned", "reported"} =>
        /\ Len(all_summaries) = Len(difficulty_levels) * Len(length_options)
        /\ \A n \in 1..Len(ConfiguredKeys) :
              /\ all_summaries[n] # None
              /\ all_summaries[n] = VariantSummary \/ StartsWith(all_summaries[n], FAILURE_MARKER)
        /\ \A i \in 1..Len(RunOrder) :
              FailedAt(i) =>
                  /\ StartsWith(all_summaries[KeyIndex(RunOrder[i])], FAILURE_MARKER)
                  /\ \A j \in (i + 1)..Len(RunOrder) :
                        \E e \in 1..Len(progress_events) :
                            /\ progress_events[e].difficulty = RunOrder[j][1]
                            /\ progress_events[e].length = RunOrder[j][2]
                            /\ progress_events[e].status = "started"

\* a finished run whose first variant failed and whose last was generated
C16_Witness ==
    /\ ipc = "returned"
    /\ Len(RunOrder) >= 4
    /\ FailedAt(1)
    /\ all_summaries[KeyIndex(RunOrder[Len(RunOrder)])] = VariantSummary

-----------------------------------------------------------------------------
(* Properties of generate_questions.                                       *)

\* C19: when the remote reply gives no valid quiz, or the remote call fails,
\* generate_questions returns the quiz of the algorithmic generator, and that
\* quiz has at least one question, whatever the transcript.
C19_FallbackQuizNotEmpty ==
    (qpc = "returned" /\ azure_configured /\ q_path \in {"algorithmic", "basic"})
        => Len(questions) >= 1


\* the store as load_summary_templates built it at construction
LoadedStore == load_summary_templates(main_yaml, hybrid_yaml)

\* C20: get_template_recommendations is read-only. The template store stays
\* what load_summary_templates built, through the recommendations call and
\* through the selection; and the template get_summary_template chooses is
\* the one it chooses on the untouched store, so it is the same whether or
\* not get_template_recommendations ran before it.
C20_RecommendationsReadOnly ==
    /\ tlpc # "idle" => self_templates = LoadedStore
    /\ tlpc = "selected" =>
          selected_template = get_summary_template(tl_genre, tl_content_type, LoadedStore,
                                                   tl_transcript_text, tl_video_title)

\* a selection made on a store of several templates, after a call of
\* get_template_recommendations that ranked a template that is not the first
\* of the store highest
C20_Witness ==
    /\ tlpc = "selected"
    /\ Len(self_templates) >= 4
    /\ Len(recommendations) = 3
    /\ recommendations[1][1] # self_templates[1].name
    /\ recommendations[1][2] > 0
    /\ selected_template # DefaultTemplate


-----------------------------------------------------------------------------
(* The batched transcript correction.                                      *)

\* the fixed_transcript values of the correction batches, in chunk order
FixedParts == [k \in 1..Len(batch_chunks) |-> FixedReply(batch_chunks[k], k).fixed_transcript]

\* length of ' '.join(parts)
RECURSIVE JoinedLen(_)
JoinedLen(parts) ==
    IF parts = <<>> THEN 0
    ELSE IF Len(parts) = 1 THEN TLen(parts[1])
    ELSE TLen(parts[1]) + 1 + JoinedLen(Tail(parts))

\* character i (0-based) of ' '.join(parts)
RECURSIVE JoinedCharAt(_, _)
JoinedCharAt(parts, i) ==
    IF i < TLen(parts[1]) THEN CharAt(parts[1], i)
    ELSE IF i = TLen(parts[1]) THEN " "
    ELSE JoinedCharAt(Tail(parts), i - TLen(parts[1]) - 1)

\* every correction batch of the transcript got its reply
AllCorrectionsSucceeded ==
    /\ batch_fn = "process_in_batches"
    /\ processor_fn = "fix_transcript_chunk"
    /\ bpc = "returned"
    /\ \A k \in 1..Len(batch_chunks) : calls[k] = <<"ok">>

\* C21: for a transcript of more than 3000 characters whose correction
\* batches all succeed, the text correct_transcript_async hands on (the text
\* that is chunked next) is the batches' fixed_transcript values in chunk
\* order joined by single spaces, and not the uncorrected transcript.
C21_BatchedCorrectionReturnsFixedText ==
    (spc = "chunking" /\ TLen(s_transcript_text) > CORRECTION_THRESHOLD
        /\ AllCorrectionsSucceeded)
        => /\ TLen(text_in) = JoinedLen(FixedParts)
           /\ \A i \in 0..(TLen(text_in) - 1) : CharAt(text_in, i) = JoinedCharAt(FixedParts, i)
           /\ text_in # s_transcript_text


-----------------------------------------------------------------------------
(* The choice between the sequential and the parallel chunk path.          *)

\* the chunk tasks whose remote call is in flight
RunningTasks == {k \in 1..Len(tasks) : tasks[k].state = "running"}

\* C22: summarize_async processes a batch of at most 2 chunks in its own
\* loop, one awaited call at a time, and creates no task for it; concurrent
\* tasks exist only for a batch of more than 2 chunks, and they are created
\* in ascending chunk index order.
C22_SmallBatchesSequential ==
    /\ spc = "summarizing_seq" =>
          /\ Len(batch_chunks) <= 2
          /\ tasks = <<>>
          /\ Len(seq_summaries) <= Len(batch_chunks)
    /\ spc = "summarizing_parallel" =>
          /\ Len(batch_chunks) > 2
          /\ \A k \in 1..Len(tasks) : tasks[k].chunk_idx = k - 1
    /\ (spc \in {"summarizing_seq", "summarizing_parallel"} /\ Len(batch_chunks) <= 2) =>
          RunningTasks = {}

\* the sequential loop is at the second chunk of a batch of two
C22_Witness ==
    /\ spc = "summarizing_seq"
    /\ Len(batch_chunks) = 2
    /\ Len(seq_summaries) = 1


\* the genre tiers yield no template of the store: the normalised genre is
\* no key of the store, and no template key whose keywords occur in the genre
\* is a key of the store
GenreTiersYieldNothing ==
    /\ ~HasKey(self_templates, NormGenre)
    /\ \A a \in 1..Len(genre_mapping) :
          (\E k \in 1..Len(genre_mapping[a].keywords) :
              Contains(NormGenre, genre_mapping[a].keywords[k]))
          => ~HasKey(self_templates, genre_mapping[a].key)

\* C23: the tiers of get_summary_template are tried in order.  When the
\* content detection accepts no template and the genre tiers yield no
\* template of the store, the selection is that of the content-type mapping,
\* and it is the default template only when the content-type mapping yields
\* no template of the store either.
C23_TiersInOrder ==
    (tlpc = "selected" /\ detected_template = NoTemplate /\ GenreTiersYieldNothing)
        => selected_template = ContentTypeTier(self_templates, NormContentType)


-----------------------------------------------------------------------------
(* The chunk boundaries of create_overlapping_chunks.                      *)

\* offsets past the midpoint of the chunk that starts at st at which a
\* sentence break ('. ') lies wholly before the naive end
BreaksPastMidpoint(st) ==
    {p \in (st + (chunk_size \div 2) + 1)..(st + chunk_size - 2) :
        CharAt(text, p) = "." /\ CharAt(text, p + 1) = " "}

\* offsets past the midpoint, before the naive end, that hold a space
SpacesPastMidpoint(st) ==
    {p \in (st + (chunk_size \div 2) + 1)..(st + chunk_size - 1) : CharAt(text, p) = " "}

\* C24: a chunk whose naive end start + chunk_size lies before the end of
\* the text ends just behind the last sentence break past its midpoint if
\* there is one, else at the last space past its midpoint if there is one,
\* else at the naive end; so it spans more than chunk_size // 2 and at most
\* chunk_size characters (chunk_size being the size the loop works with).
C24_BoundaryPastMidpoint ==
    \A k \in 1..Len(chunks) :
        LET st == chunks[k].start
            end == chunks[k].end
        IN st + chunk_size < TLen(text) =>
              /\ IF BreaksPastMidpoint(st) # {} THEN end = SetMax(BreaksPastMidpoint(st)) + 1
                 ELSE IF SpacesPastMidpoint(st) # {} THEN end = SetMax(SpacesPastMidpoint(st))
                 ELSE end = st + chunk_size
              /\ end - st > chunk_size \div 2
              /\ end - st <= chunk_size
              /\ chunks[k].hi - chunks[k].lo = end - st

\* the call has returned a chunk that ends behind a sentence break although
\* a space lies between that break and the naive end, and a chunk that ends
\* at its naive end before the end of the text
C24_Witness ==
    /\ cpc = "returned"
    /\ \E k \in 1..Len(chunks) :
          /\ chunks[k].start + chunk_size < TLen(text)
          /\ BreaksPastMidpoint(chunks[k].start) # {}
          /\ chunks[k].end < SetMax(SpacesPastMidpoint(chunks[k].start))
    /\ \E k \in 1..Len(chunks) :
          /\ chunks[k].start + chunk_size < TLen(text)
          /\ chunks[k].end = chunks[k].start + chunk_size


\* C25: create_overlapping_chunks terminates: for every text, whitespace-only
\* texts included, and all arguments with chunk_size > overlap >= 0 and
\* max_chunks >= 1, the call returns.
C25_ChunkerTerminates == <>(cpc = "returned")


\* C26: no returned chunk lies wholly in the range of the chunk before it:
\* every chunk after the first ends at least one character beyond the end
\* of its predecessor; and a text no longer than chunk_size is not split
\* into several chunks.
C26_ChunksReachBeyondPredecessor ==
    /\ \A k \in 1..(Len(chunks) - 1) : chunks[k + 1].hi > chunks[k].hi
    /\ TLen(text_in) <= original_chunk_size => Len(chunks) <= 1


-----------------------------------------------------------------------------
(* The memory monitor of summarize_async.                                  *)

\* summarize_async has returned what the assembler made of the chunk
\* summaries
ReturnedAssembledSummary ==
    /\ apc = "returned"
    /\ s_result = asm_result
    /\ s_path = asm_path

\* C27: the memory monitor only affects diagnostics.  A run on a non-empty
\* transcript returns the assembled summary of its chunk summaries whether
\* or not psutil can be imported, as the run with psutil does, for a batch
\* of any size.
C27_MonitorOnlyDiagnostic ==
    (spc = "returned" /\ TLen(s_transcript_text) > 0) => ReturnedAssembledSummary


\* C28: in the emergency fallback summary the label above a chunk summary
\* reads "Part k of N" with k the chunk's own 1-based position among the N
\* chunk summaries, also when chunks before it were unavailable and are
\* left out.
C28_PartLabelIsChunkPosition ==
    (apc = "returned" /\ asm_path = "emergency") =>
        \A k \in 1..Len(asm_summaries) :
            ~Unavailable(asm_summaries[k]) =>
                Contains(asm_result, FallbackPart(k, Len(asm_summaries), asm_summaries[k]))


-----------------------------------------------------------------------------
(* The classification of the chunk results.                                *)

\* the remote call made last for chunk k returned a reply
CallSucceeded(k) == calls[k] # <<>> /\ calls[k][Len(calls[k])] = "ok"

\* C29: when the chunk summaries are handed to the assembler, a chunk whose
\* remote call succeeded is a valid summary for the assembler and is counted
\* as successful by the run statistics, whatever the reply; only a chunk
\* whose call failed is unavailable; and the statistics count as successful
\* exactly the chunks the assembler keeps.
C29_SucceededChunksCountAsValid ==
    spc = "assembling" =>
        /\ successful_chunks(asm_summaries) = Len(valid_summaries(asm_summaries))
        /\ \A k \in 1..Len(asm_summaries) :
              /\ CallSucceeded(k) => /\ ~Unavailable(asm_summaries[k])
                                     /\ CountedSuccessful(asm_summaries[k])
              /\ Unavailable(asm_summaries[k]) => ~CallSucceeded(k)
              /\ Unavailable(asm_summaries[k]) <=> ~CountedSuccessful(asm_summaries[k])


-----------------------------------------------------------------------------
(* The sequential and the parallel chunk path.                             *)

\* what either path is to yield for chunk k, given the outcomes of the
\* remote calls made for it
AgreedSummaries(k) ==
    IF calls[k][1] = "error"
    THEN {ChunkErrorMarker(k - 1)}
    ELSE {RemoteReply(k).content, BracketReply(k).content}

\* C30: the list of chunk summaries handed to the assembler is the same
\* function of the chunks and of the outcomes of the remote calls on the
\* sequential and on the parallel path: one summary per chunk, in chunk
\* order, one remote attempt per chunk, the reply of a call that succeeded
\* and the error marker of the chunk for a call that failed.
C30_PathsAgree ==
    spc = "assembling" =>
        /\ batch_fn \in {"sequential", "_process_chunks_in_parallel"}
        /\ Len(asm_summaries) = Len(batch_chunks)
        /\ \A k \in 1..Len(batch_chunks) :
              /\ Len(calls[k]) = 1
              /\ asm_summaries[k] \in AgreedSummaries(k)

\* the sequential path has handed over two chunks, one whose call failed
\* and one whose call succeeded
C30_Witness ==
    /\ spc = "assembling"
    /\ batch_fn = "sequential"
    /\ Len(batch_chunks) = 2
    /\ \E j, k \in 1..2 : calls[j] = <<"error">> /\ calls[k] = <<"ok">>

\* the parallel path has handed over its chunks, one whose call failed and
\* one whose call succeeded
ParallelPathHandedOver ==
    /\ spc = "assembling"
    /\ batch_fn = "_process_chunks_in_parallel"
    /\ \E j, k \in 1..Len(batch_chunks) : calls[j] = <<"error">> /\ calls[k] = <<"ok">>

====
